---------------------------- MODULE Spec2Model ----------------------------
(***************************************************************************)
(* A model of repolint (src/main.go and the checkers of                    *)
(* src/unnamed/part_005): the run of main() over one account, from the     *)
(* scratch directory to the last printed warning.                          *)
(*                                                                         *)
(* Strings are TLA+ strings; TLC evaluates Len, SubSeq and \o on them, so  *)
(* the string functions and the regular expressions of the source are      *)
(* computed character by character.                                        *)
(***************************************************************************)
EXTENDS Integers, Sequences, FiniteSets, TLC

(***************************************************************************)
(* Bounds of the model.                                                    *)
(***************************************************************************)
\* the most List requests one run issues (the paging loop itself is unbounded)
MaxPages == 2
\* the longest tree a GetTree answer carries
MaxFiles == 3

(***************************************************************************)
(* Strings.                                                                *)
(***************************************************************************)
Min(a, b) == IF a < b THEN a ELSE b

Max(a, b) == IF a < b THEN b ELSE a

\* s[i:] of Go, i counted from 0
From(s, i) == SubSeq(s, i + 1, Len(s))

\* s[i:j] of Go
Slice(s, i, j) == SubSeq(s, i + 1, j)

\* strings.HasPrefix
HasPrefix(s, p) == Len(s) >= Len(p) /\ SubSeq(s, 1, Len(p)) = p

\* strings.HasSuffix
HasSuffix(s, p) == Len(s) >= Len(p) /\ From(s, Len(s) - Len(p)) = p

\* sub occurs in s at offset i
At(s, i, sub) == i + Len(sub) <= Len(s) /\ Slice(s, i, i + Len(sub)) = sub

\* strings.Contains
Contains(s, sub) == \E i \in 0..Len(s) : At(s, i, sub)

\* strings.Index, -1 when sub does not occur
Index(s, sub) ==
    IF Contains(s, sub)
    THEN CHOOSE i \in 0..Len(s) : At(s, i, sub) /\ \A j \in 0..(i - 1) : ~At(s, j, sub)
    ELSE -1

\* strings.LastIndex
LastIndex(s, sub) ==
    IF Contains(s, sub)
    THEN CHOOSE i \in 0..Len(s) : At(s, i, sub) /\ \A j \in (i + 1)..Len(s) : ~At(s, j, sub)
    ELSE -1

\* strings.Replace(s, old, new, -1) for a non-empty old
RECURSIVE Replace(_, _, _)
Replace(s, old, new) ==
    IF Index(s, old) < 0 THEN s
    ELSE Slice(s, 0, Index(s, old)) \o new
         \o Replace(From(s, Index(s, old) + Len(old)), old, new)

\* strings.Split(s, sep) for a non-empty sep
RECURSIVE Split(_, _)
Split(s, sep) ==
    IF Index(s, sep) < 0 THEN <<s>>
    ELSE <<Slice(s, 0, Index(s, sep))>> \o Split(From(s, Index(s, sep) + Len(sep)), sep)

\* the white space of strings.TrimSpace and of \s (ASCII)
IsSpace(c) == c \in {" ", "\t", "\n", "\r", "\f"}

\* strings.TrimSpace
RECURSIVE TrimSpace(_)
TrimSpace(s) ==
    IF s = "" THEN s
    ELSE IF IsSpace(SubSeq(s, 1, 1)) THEN TrimSpace(From(s, 1))
    ELSE IF IsSpace(SubSeq(s, Len(s), Len(s))) THEN TrimSpace(Slice(s, 0, Len(s) - 1))
    ELSE s

\* strings.TrimLeft(s, cutset)
RECURSIVE TrimLeft(_, _)
TrimLeft(s, cutset) ==
    IF s # "" /\ Contains(cutset, SubSeq(s, 1, 1)) THEN TrimLeft(From(s, 1), cutset) ELSE s

Upper == "ABCDEFGHIJKLMNOPQRSTUVWXYZ"

Lower == "abcdefghijklmnopqrstuvwxyz"

\* the folding of (?i): one character to lower case
LowerChar(c) == IF Contains(Upper, c) /\ c # ""
                THEN Slice(Lower, Index(Upper, c), Index(Upper, c) + 1) ELSE c

RECURSIVE ToLower(_)
ToLower(s) == IF s = "" THEN s ELSE LowerChar(SubSeq(s, 1, 1)) \o ToLower(From(s, 1))

\* . of a regular expression: any character but a line break
NoNewline(s) == ~Contains(s, "\n")

\* filepath.Base on a slash-separated path
RECURSIVE Base(_)
Base(path) ==
    IF path = "" THEN "."
    ELSE IF HasSuffix(path, "/")
         THEN (IF Len(path) = 1 THEN "/" ELSE Base(Slice(path, 0, Len(path) - 1)))
         ELSE From(path, LastIndex(path, "/") + 1)

(***************************************************************************)
(* The regular expressions of the source, each as the predicate            *)
(* MatchString computes.                                                   *)
(***************************************************************************)
\* vendorDirs of collectRepoFiles: every pattern is an optional slash, the
\* directory name and a slash; third[-_]party is written out as its two names
vendorDirs == {"vendor/", "node_modules/", "cargo-vendor/", "third-party/", "third_party/"}

\* vendorRE.MatchString: the pattern is not anchored, it matches anywhere in the path
vendorRE(path) ==
    \E d \in vendorDirs : \E i \in 0..Len(path) : At(path, i, "/" \o d) \/ At(path, i, d)

\* docFileRE = ^(?:README|CONTRIBUTING|TODO).*
docFileRE(name) ==
    HasPrefix(name, "README") \/ HasPrefix(name, "CONTRIBUTING") \/ HasPrefix(name, "TODO")

isDocumentationFile(filename) == docFileRE(filename)

\* ^stem(?:[seps].+)?$ under (?i): the stem alone, or the stem, one of seps and
\* at least one more character of the same line
StemThenExt(name, stem, seps) ==
    \/ ToLower(name) = stem
    \/ /\ HasPrefix(ToLower(name), stem)
       /\ Len(name) > Len(stem) + 1
       /\ Contains(seps, Slice(name, Len(stem), Len(stem) + 1))
       /\ NoNewline(From(name, Len(stem) + 1))

\* rootLicenseFileRE = (?i)^(?:licen[sc]e|copying)(?:[.-].+)?$
rootLicenseFileRE(name) ==
    \E stem \in {"license", "licence", "copying"} : StemThenExt(name, stem, ".-")

\* rootReadmeFileRE = (?i)^readme(?:\..+)?$
rootReadmeFileRE(name) == StemThenExt(name, "readme", ".")

\* the patterns of newUnwantedFileChecker, by kind
unwantedKinds ==
    {"Vim swap", "Emacs autosave", "Emacs backup", "Emacs lock file",
     "Mac OS sys file", "Windows sys file"}

unwantedPattern(kind, name) ==
    CASE kind = "Vim swap" -> HasSuffix(name, ".swp") /\ NoNewline(name)
      [] kind = "Emacs autosave" ->
            Len(name) >= 2 /\ HasPrefix(name, "#") /\ HasSuffix(name, "#") /\ NoNewline(name)
      [] kind = "Emacs backup" -> HasSuffix(name, "~") /\ NoNewline(name)
      [] kind = "Emacs lock file" -> HasPrefix(name, ".#") /\ NoNewline(name)
      [] kind = "Mac OS sys file" -> name = ".DS_STORE"
      [] kind = "Windows sys file" -> name = "Thumbs.db"

(***************************************************************************)
(* Files and checkers.                                                     *)
(***************************************************************************)
\* &repoFile{origName: path, baseName: filepath.Base(path)} of collectRepoFiles
repoFile(path) ==
    [origName |-> path, baseName |-> Base(path), tempName |-> "", contents |-> "",
     require |-> [localCopy |-> FALSE, contents |-> FALSE]]

\* the registry main() builds, by name
Registry ==
    {"missing file", "broken link", "misspell", "var name typo", "unwanted file",
     "sloppy copyright", "acronym", "code snippet"}

\* a checker as constructed: checkerBase with no files, and the two flags of
\* missingFileChecker
newChecker == [files |-> <<>>, repo |-> "", seenReadme |-> FALSE, seenLicense |-> FALSE]

\* a Reset of checkerBase alone: the two flags of missingFileChecker stay
resetBaseOnly(c, repo) == [c EXCEPT !.files = <<>>, !.repo = repo]

\* checkerBase.Reset and missingFileChecker.Reset; the two flags exist only in
\* missingFileChecker and are FALSE in every other checker
Reset(c, repo) == [files |-> <<>>, repo |-> repo, seenReadme |-> FALSE, seenLicense |-> FALSE]

\* checkerBase.acceptFile: ptr is the pointer to the file
acceptFile(c, ptr) == [c EXCEPT !.files = Append(@, ptr)]

requireLocalCopy(f) == [f EXCEPT !.require.localCopy = TRUE]

\* a flagging of the contents that forgets a flag set before
requireContentsOnly(f) == [f EXCEPT !.require = [localCopy |-> FALSE, contents |-> TRUE]]

requireContents(f) == [f EXCEPT !.require.contents = TRUE]

\* what the code snippet checker, whose source is not at hand, may do with a
\* file under the protocol: leave it, or flag one need and retain it
SnippetChoices == {"skip", "localCopy", "contents"}

\* PushFile of the checker called name: the checker and the file after the call
PushFile(name, c, f, ptr, choice) ==
    CASE name = "missing file" ->
            [c |-> IF rootReadmeFileRE(f.origName) THEN [c EXCEPT !.seenReadme = TRUE]
                   ELSE IF rootLicenseFileRE(f.origName) THEN [c EXCEPT !.seenLicense = TRUE]
                   ELSE c,
             f |-> f]
      [] name \in {"misspell", "broken link"} ->
            IF isDocumentationFile(f.baseName)
            THEN [c |-> acceptFile(c, ptr), f |-> requireLocalCopy(f)]
            ELSE [c |-> c, f |-> f]
      [] name \in {"var name typo", "acronym"} ->
            IF isDocumentationFile(f.baseName)
            THEN [c |-> acceptFile(c, ptr), f |-> requireContents(f)]
            ELSE [c |-> c, f |-> f]
      [] name = "sloppy copyright" ->
            IF rootLicenseFileRE(f.origName)
            THEN [c |-> acceptFile(c, ptr), f |-> requireContents(f)]
            ELSE [c |-> c, f |-> f]
      [] name = "unwanted file" -> [c |-> acceptFile(c, ptr), f |-> f]
      [] name = "code snippet" ->
            CASE choice = "skip" -> [c |-> c, f |-> f]
              [] choice = "localCopy" -> [c |-> acceptFile(c, ptr), f |-> requireLocalCopy(f)]
              [] choice = "contents" -> [c |-> acceptFile(c, ptr), f |-> requireContents(f)]

(***************************************************************************)
(* CheckFiles.  A file is read through the pointer the checker retained:   *)
(* fs is the list the pointers of this scan lead into.                     *)
(***************************************************************************)
\* the files a checker retained, as they are now
Retained(c, fs) == [j \in 1..Len(c.files) |-> fs[c.files[j].at]]

\* the concatenation of a sequence of sequences
RECURSIVE Flatten(_)
Flatten(ss) == IF ss = <<>> THEN <<>> ELSE Head(ss) \o Flatten(Tail(ss))

\* every order a Go map of the keys S may be ranged over in
Orders(S) ==
    {o \in [1..Cardinality(S) -> S] : \A a, b \in 1..Cardinality(S) : a # b => o[a] # o[b]}

\* every way to take one element of each set of a sequence of sets
RECURSIVE Choices(_)
Choices(sets) ==
    IF sets = <<>> THEN {<<>>}
    ELSE {<<h>> \o t : h \in Head(sets), t \in Choices(Tail(sets))}

\* a missingFileChecker that reports nothing
missingNothing(c) == <<>>

\* missingFileChecker.CheckFiles
missingFileCheckFiles(c) ==
    (IF ~c.seenReadme THEN <<"missing root README file">> ELSE <<>>)
    \o (IF ~c.seenLicense THEN <<"missing root LICENSE file">> ELSE <<>>)

\* the warnings unwantedFileChecker.CheckFiles makes of one file, the patterns
\* being ranged over in the order o
unwantedOfFile(f, o) ==
    [j \in 1..Len(o) |-> "remove " \o o[j] \o " file: " \o f.origName]

\* unwantedFileChecker.CheckFiles: the lists it may return, one for every order
\* the map of patterns is ranged over in, file by file
unwantedFileCheckFiles(c, fs) ==
    {Flatten(pick) :
        pick \in Choices([j \in 1..Len(c.files) |->
            {unwantedOfFile(Retained(c, fs)[j], o) :
                o \in Orders({kd \in unwantedKinds :
                                unwantedPattern(kd, Retained(c, fs)[j].baseName)})}])}

\* the ends of lit read at one of the offsets P of s
Lit(s, P, lit) == {p + Len(lit) : p \in {q \in P : At(s, q, lit)}}

\* x? of a regular expression
Opt(s, P, lit) == P \cup Lit(s, P, lit)

\* \s*
Spaces(s, P) ==
    {q \in 0..Len(s) : \E p \in P : p <= q /\ \A j \in p..(q - 1) : IsSpace(Slice(s, j, j + 1))}

IsDigit(ch) == ch # "" /\ Contains("0123456789", ch)

\* (?:year|\d{4})
YearOrDigits(s, P) ==
    Lit(s, P, "year")
    \cup {p + 4 : p \in {q \in P : q + 4 <= Len(s)
                                  /\ \A j \in q..(q + 3) : IsDigit(Slice(s, j, j + 1))}}

\* the head of one alternative of newSloppyCopyrightChecker up to the name:
\* the notice, \s* where the pattern has it, the year, an optional comma, \s*
CopyrightHead(s, notice, spaced) ==
    Spaces(s, Opt(s, YearOrDigits(s,
        IF spaced THEN Spaces(s, Lit(s, 0..Len(s), notice)) ELSE Lit(s, 0..Len(s), notice)), ","))

\* copyrightRE.MatchString, the text folded to lower case by (?i)
copyrightRE(text) ==
    LET s == ToLower(text) IN
    \/ Lit(s, Opt(s, Lit(s, CopyrightHead(s, "copyright ", FALSE), "ful"), "l"), " name") # {}
    \/ Lit(s, Opt(s, Lit(s, CopyrightHead(s, "copyright (c)", TRUE), "full"), " "), "name") # {}
    \/ Lit(s, Opt(s, Lit(s, CopyrightHead(s, "copyright â©", TRUE), "ful"), "l"), " name") # {}

\* sloppyCopyrightChecker.CheckFiles
RECURSIVE sloppyOf(_)
sloppyOf(files) ==
    IF files = <<>> THEN <<>>
    ELSE (IF copyrightRE(Head(files).contents)
          THEN <<Head(files).origName \o ": license contains sloppy copyright">> ELSE <<>>)
         \o sloppyOf(Tail(files))

sloppyCopyrightCheckFiles(c, fs) == sloppyOf(Retained(c, fs))

(***************************************************************************)
(* The line scanners: FindAllString of a pattern over every line of the    *)
(* contents of every retained file.                                        *)
(***************************************************************************)
\* fromTo of newAcronymChecker
acronymMap ==
    [from \in {"gnu", "sql", "dsl", "ansi", "bios", "cgi", "ssa", "dpi", "gui", "oop"} |->
        CASE from = "gnu" -> "GNU" [] from = "sql" -> "SQL" [] from = "dsl" -> "DSL"
          [] from = "ansi" -> "ANSI" [] from = "bios" -> "BIOS" [] from = "cgi" -> "CGI"
          [] from = "ssa" -> "SSA" [] from = "dpi" -> "DPI" [] from = "gui" -> "GUI"
          [] from = "oop" -> "OOP"]

\* the value of a Go map at a key, "" when the key is missing
MapGet(m, key) == IF key \in DOMAIN m THEN m[key] ELSE ""

\* a pattern of the bare keys: an acronym matches wherever its letters occur
acronymAnywhere(l, i) ==
    {e \in 0..Len(l) : \E from \in DOMAIN acronymMap : At(l, i, from) /\ e = i + Len(from)}

\* the ends of the matches of acronymRE that begin at offset i of line l: one
\* alternative (?:^|\s)from(?:$|\s) for every key; ^ and $ are the two ends of
\* the line, \s takes one character
acronymEnds(l, i) ==
    {e \in 0..Len(l) : \E from \in DOMAIN acronymMap : \E pre \in {0, 1} :
        /\ \/ pre = 0 /\ i = 0
           \/ pre = 1 /\ i < Len(l) /\ IsSpace(Slice(l, i, i + 1))
        /\ At(l, i + pre, from)
        /\ \/ e = i + pre + Len(from) /\ e = Len(l)
           \/ e = i + pre + Len(from) + 1 /\ e <= Len(l) /\ IsSpace(Slice(l, e - 1, e))}

\* typos of newVarTypoChecker
typos ==
    [typo \in {"PAHT", "HOEM", "GOPAHT", "JAAV_HOME", "JAVA_HOEM", "JAVE_HOME",
               "CLASSPAHT", "CLASPATH"} |->
        CASE typo = "PAHT" -> "PATH" [] typo = "HOEM" -> "HOME" [] typo = "GOPAHT" -> "GOPATH"
          [] typo \in {"JAAV_HOME", "JAVA_HOEM", "JAVE_HOME"} -> "JAVA_HOME"
          [] typo \in {"CLASSPAHT", "CLASPATH"} -> "CLASSPATH"]

\* varsMap of newVarTypoChecker: $typo and ${typo} to the corrected name
varsMap ==
    [key \in {"$" \o t : t \in DOMAIN typos} \cup {"${" \o t \o "}" : t \in DOMAIN typos} |->
        IF HasPrefix(key, "${") THEN typos[Slice(key, 2, Len(key) - 1)]
        ELSE typos[From(key, 1)]]

\* \w of a regular expression
IsWord(ch) ==
    ch # "" /\ Contains("0123456789_ABCDEFGHIJKLMNOPQRSTUVWXYZabcdefghijklmnopqrstuvwxyz", ch)

\* a pattern without the word boundary: $typo matches in front of any character
varsNoBoundary(l, i) ==
    {e \in 0..Len(l) : \E typo \in DOMAIN typos :
        \/ At(l, i, "$" \o typo) /\ e = i + 1 + Len(typo)
        \/ At(l, i, "${" \o typo \o "}") /\ e = i + 3 + Len(typo)}

\* the ends of the matches of varsRE that begin at offset i of line l: \$typo\b
\* or \$\{typo\} for every typo; after the last letter of a typo \b holds at the
\* end of the line and before a character that is not of a word
varsEnds(l, i) ==
    {e \in 0..Len(l) : \E typo \in DOMAIN typos :
        \/ /\ At(l, i, "$" \o typo)
           /\ e = i + 1 + Len(typo)
           /\ (e = Len(l) \/ ~IsWord(Slice(l, e, e + 1)))
        \/ /\ At(l, i, "${" \o typo \o "}")
           /\ e = i + 3 + Len(typo)}

\* FindAllString(l, -1) from offset pos on, for the pattern whose matches that
\* begin at i end in Ends[i]: the leftmost match, then the rest of the line
\* after it.  No two alternatives of either pattern match at one offset, so
\* the order of the alternatives (a map's order) does not matter.
RECURSIVE FindAll(_, _, _)
FindAll(l, Ends, pos) ==
    LET starts == {i \in pos..Len(l) : Ends[i] # {}} IN
    IF starts = {} THEN <<>>
    ELSE LET i == CHOOSE a \in starts : \A b \in starts : a <= b
             e == CHOOSE a \in Ends[i] : \A b \in Ends[i] : a <= b
         IN <<Slice(l, i, e)>> \o FindAll(l, Ends, e)

acronymFindAll(l) == FindAll(l, [i \in 0..Len(l) |-> acronymEnds(l, i)], 0)

varsFindAll(l) == FindAll(l, [i \in 0..Len(l) |-> varsEnds(l, i)], 0)

\* the warnings acronymChecker.CheckFiles makes of line number n of file f
acronymOfLine(f, n, l) ==
    [j \in 1..Len(acronymFindAll(l)) |->
        f.origName \o ":" \o ToString(n) \o ": replace " \o TrimSpace(acronymFindAll(l)[j])
        \o " with " \o MapGet(acronymMap, TrimSpace(acronymFindAll(l)[j]))]

\* the warnings varTypoChecker.CheckFiles makes of line number n of file f
varTypoOfLine(f, n, l) ==
    [j \in 1..Len(varsFindAll(l)) |->
        f.origName \o ":" \o ToString(n) \o ": " \o varsFindAll(l)[j]
        \o " could be a misspelling of " \o MapGet(varsMap, varsFindAll(l)[j])]

\* acronymChecker.CheckFiles
acronymCheckFiles(c, fs) ==
    Flatten([j \in 1..Len(c.files) |->
        LET f == Retained(c, fs)[j]
            lines == Split(f.contents, "\n")
        IN Flatten([n \in 1..Len(lines) |-> acronymOfLine(f, n, lines[n])])])

\* a varTypoChecker.CheckFiles that reads the lines of a file from the last to
\* the first
varTypoBottomUp(c, fs) ==
    Flatten([j \in 1..Len(c.files) |->
        LET f == Retained(c, fs)[j]
            lines == Split(f.contents, "\n")
        IN Flatten([n \in 1..Len(lines) |->
                varTypoOfLine(f, Len(lines) + 1 - n, lines[Len(lines) + 1 - n])])])

\* varTypoChecker.CheckFiles
varTypoCheckFiles(c, fs) ==
    Flatten([j \in 1..Len(c.files) |->
        LET f == Retained(c, fs)[j]
            lines == Split(f.contents, "\n")
        IN Flatten([n \in 1..Len(lines) |-> varTypoOfLine(f, n, lines[n])])])

(***************************************************************************)
(* The external tools.  misspell and liche are run over the scratch paths  *)
(* of the retained files; a run is the pair CombinedOutput returns.        *)
(***************************************************************************)
\* checkerBase.tempFilenames
tempFilenames(c, fs) == [j \in 1..Len(c.files) |-> Retained(c, fs)[j].tempName]

\* the argument list of checkerBase.filenameReplacer: old, new, old, new, ...
oldnew(c, fs) ==
    Flatten([j \in 1..Len(c.files) |->
        <<Retained(c, fs)[j].tempName, Retained(c, fs)[j].origName>>])

\* strings.NewReplacer(pairs...).Replace(s): at every offset the first old
\* string, in argument order, that occurs there is replaced; the matches do not
\* overlap.  (No old string is empty here: a retained file has a scratch path.)
RECURSIVE ReplacerReplace(_, _)
ReplacerReplace(pairs, s) ==
    IF s = "" THEN ""
    ELSE LET hits == {j \in 1..(Len(pairs) \div 2) :
                        pairs[2 * j - 1] # "" /\ At(s, 0, pairs[2 * j - 1])}
         IN IF hits = {} THEN SubSeq(s, 1, 1) \o ReplacerReplace(pairs, From(s, 1))
            ELSE LET j == CHOOSE a \in hits : \A b \in hits : a <= b
                 IN pairs[2 * j] \o ReplacerReplace(pairs, From(s, Len(pairs[2 * j - 1])))

\* the outcome of a CheckFiles call: the list it returns, or a panic
Returned(warnings) == [panic |-> FALSE, warnings |-> warnings]

Panicked == [panic |-> TRUE, warnings |-> <<>>]

\* misspellChecker.CheckFiles on the run [err, out]
RECURSIVE misspellOf(_, _)
misspellOf(pairs, lines) ==
    IF lines = <<>> THEN <<>>
    ELSE (IF Head(lines) = "" THEN <<>> ELSE <<ReplacerReplace(pairs, Head(lines))>>)
         \o misspellOf(pairs, Tail(lines))

misspellCheckFiles(c, fs, run) ==
    IF run.err THEN misspellOf(oldnew(c, fs), Split(run.out, "\n")) ELSE <<>>

\* the loop of brokenLinkChecker.CheckFiles from index i (counted from 0) on:
\* lines[i] after i++ is read without a test of i against len(lines)
RECURSIVE brokenLinkOf(_, _, _, _, _)
brokenLinkOf(pairs, lines, i, filename, warnings) ==
    IF i >= Len(lines) THEN Returned(warnings)
    ELSE LET l == lines[i + 1] IN
         IF l = "" THEN brokenLinkOf(pairs, lines, i + 1, filename, warnings)
         ELSE IF SubSeq(l, 1, 1) # "\t"
         THEN brokenLinkOf(pairs, lines, i + 1, ReplacerReplace(pairs, l), warnings)
         ELSE IF ~Contains(l, "ERROR")
         THEN brokenLinkOf(pairs, lines, i + 1, filename, warnings)
         ELSE IF i + 1 >= Len(lines) THEN Panicked
         ELSE LET url == TrimLeft(l, "\t ERROR")
                  info == TrimSpace(lines[i + 2])
              IN IF \/ info = "Timeout"
                    \/ Contains(info, "no such file")
                    \/ Contains(info, "root directory is not specified")
                 THEN brokenLinkOf(pairs, lines, i + 2, filename, warnings)
                 ELSE brokenLinkOf(pairs, lines, i + 2, filename,
                          Append(warnings, filename \o ": " \o url \o ": " \o info))

brokenLinkCheckFiles(c, fs, run) ==
    IF run.err THEN brokenLinkOf(oldnew(c, fs), Split(run.out, "\n"), 0, "", <<>>)
    ELSE Returned(<<>>)

\* the concatenation of a sequence of strings
RECURSIVE Concat(_)
Concat(ss) == IF ss = <<>> THEN "" ELSE Head(ss) \o Concat(Tail(ss))

\* the runs of misspell the model draws from: no finding, or one finding in
\* every file it was given
misspellRuns(names) ==
    {[err |-> FALSE, out |-> ""],
     [err |-> TRUE,
      out |-> Concat([j \in 1..Len(names) |->
                names[j] \o ":1:0: \"existance\" is a misspelling of \"existence\"\n"])]}

\* the runs of liche the model draws from: no finding; for every file its
\* header, a link that does not resolve and a link that timed out; and that
\* output cut after the first ERROR line.  Given no file, liche checks no link:
\* it succeeds, or it fails with a message of its own.
licheRuns(names) ==
    IF names = <<>>
    THEN {[err |-> FALSE, out |-> ""], [err |-> TRUE, out |-> "Usage: liche <filenames>\n"]}
    ELSE {[err |-> FALSE, out |-> ""],
          [err |-> TRUE,
           out |-> Concat([j \in 1..Len(names) |->
                     names[j] \o "\n\tERROR\thttp://a.test\n\t  no such host\n"
                     \o "\tERROR\thttp://b.test\n\t  Timeout\n"])],
          [err |-> TRUE, out |-> names[1] \o "\n\tERROR\thttp://a.test"]}

\* what the code snippet checker may return
SnippetWarnings == {<<>>, <<"code snippet warning">>}

\* the outcomes of CheckFiles of the checker called name
CheckFiles(name, c, fs) ==
    CASE name = "missing file" -> {Returned(missingFileCheckFiles(c))}
      [] name = "unwanted file" -> {Returned(w) : w \in unwantedFileCheckFiles(c, fs)}
      [] name = "sloppy copyright" -> {Returned(sloppyCopyrightCheckFiles(c, fs))}
      [] name = "acronym" -> {Returned(acronymCheckFiles(c, fs))}
      [] name = "var name typo" -> {Returned(varTypoCheckFiles(c, fs))}
      [] name = "misspell" ->
            {Returned(misspellCheckFiles(c, fs, run)) : run \in misspellRuns(tempFilenames(c, fs))}
      [] name = "broken link" ->
            {brokenLinkCheckFiles(c, fs, run) : run \in licheRuns(tempFilenames(c, fs))}
      [] name = "code snippet" -> {Returned(w) : w \in SnippetWarnings}

(***************************************************************************)
(* The command line and the remote account: what a run is started with.    *)
(***************************************************************************)
\* the defaults of parseFlags, for the account user
DefaultArgs ==
    [user |-> "quasilyte", minStars |-> 1, skipForks |-> TRUE, skipArchived |-> TRUE,
     skipInactive |-> TRUE, skipVendor |-> TRUE, offset |-> 0,
     disable |-> "missing file, acronym, broken link"]

\* the linter's fields before parseFlags: Go's zero values
ZeroFlags ==
    [user |-> "", minStars |-> 0, skipForks |-> FALSE, skipArchived |-> FALSE,
     skipInactive |-> FALSE, skipVendor |-> FALSE, offset |-> 0, disable |-> ""]

montsToExpire == 6

hoursToExpire == montsToExpire * 32 * 24

\* a *github.Repository: pushedAgo is time.Since(PushedAt) in minutes
Repository(name, fork, archived, stars, pushedAgo) ==
    [Name |-> name, Fork |-> fork, Archived |-> archived, StargazersCount |-> stars,
     pushedAgo |-> pushedAgo]

\* a github.TreeEntry: Path is a pointer, <<>> when nil
Entry(path) == [Path |-> <<path>>]

NilEntry == [Path |-> <<>>]

(***************************************************************************)
(* The state of a run.                                                     *)
(***************************************************************************)
VARIABLES
    args,       \* the command line
    remote,     \* the account: the pages List may answer with, its trees and its texts
    pc,         \* the step of main() that runs next, or how the process ended
    flags,      \* the linter's fields parseFlags fills
    token,      \* linter.token
    tempDir,    \* linter.tempDir
    scratch,    \* the scratch directory on disk: whether it exists, and its files
    repos,      \* linter.repos
    page,       \* opts.Page of getReposList
    requests,   \* linter.requests
    checkers,   \* the keys of linter.checkers
    chk,        \* the checker objects main() built, by name
    i,          \* the index of lintRepos
    files,      \* the files of the repository lintRepo is at
    pos,        \* where lintRepos is: the loop, the checker and the file
    printed,    \* the lines lintRepo printed in this scan, as the arguments of Printf
    pageLog,    \* history: the page of every List request
    listed,     \* history: every repository the List requests returned
    skipped,    \* history: every repository getReposList skipped, with the reason
    lastList,   \* history: the answer to the last List request
    fetched,    \* history: every getContents of this scan: the file, the answer, the
                \* string returned and the scratch file written after it
    calls,      \* history: the calls every checker received in this scan
    resolved,   \* history: the resolveRequirements calls of this scan
    treeErr,    \* history: whether GetTree failed in this scan
    failure,    \* history: what ended the process early
    scanned     \* history: the index of every repository lintRepo was called for

vars ==
    <<args, remote, pc, flags, token, tempDir, scratch, repos, page, requests, checkers,
      chk, i, files, pos, printed, pageLog, listed, skipped, lastList, fetched, calls,
      resolved, treeErr, failure, scanned>>

inputVars == <<args, remote>>

setupVars == <<flags, token, tempDir>>

listVars == <<repos, page, pageLog, listed, skipped, lastList>>

scanVars == <<chk, i, files, pos, printed, fetched, calls, resolved, treeErr, scanned>>

\* ioutil.TempDir names a fresh directory; the model names it so
TempDirName == "/tmp/repolint1"

NoScratch == [exists |-> FALSE, files |-> <<>>]

\* os.RemoveAll(l.tempDir) of cleanup: of "" it removes nothing
cleanup == IF tempDir = "" THEN scratch ELSE NoScratch

NoCalls == [c \in Registry |-> [Reset |-> 0, PushFile |-> 0, CheckFiles |-> 0]]

At0 == [at |-> "start", todo |-> {}, cur |-> "", k |-> 0]

\* the steps of main(), in the order of its table
Steps ==
    <<"init temp dir", "parse flags", "read token", "init client", "get repos list",
      "disable checkers", "lint repos">>

\* a main() that logs the error of a step and goes on to the next one
logAndContinue(step) ==
    /\ pc' = Steps[1 + CHOOSE k \in 1..(Len(Steps) - 1) : Steps[k] = step]
    /\ failure' = step
    /\ scratch' = scratch

\* log.Fatalf in main(): os.Exit(1), the deferred cleanup does not run
Fatal(step) ==
    /\ pc' = "fatal"
    /\ failure' = step
    /\ scratch' = scratch

\* a panic unwinds main(): the deferred cleanup runs, then the process dies
Panic(why) ==
    /\ pc' = "panic"
    /\ failure' = why
    /\ scratch' = cleanup

InitWith(worlds) ==
    /\ \E w \in worlds : args = w.args /\ remote = w.remote
    /\ pc = "init temp dir"
    /\ flags = ZeroFlags
    /\ token = ""
    /\ tempDir = ""
    /\ scratch = NoScratch
    /\ repos = <<>>
    /\ page = 0
    /\ requests = 0
    /\ checkers = Registry
    /\ chk = [c \in Registry |-> newChecker]
    /\ i = 0
    /\ files = <<>>
    /\ pos = At0
    /\ printed = <<>>
    /\ pageLog = <<>>
    /\ listed = <<>>
    /\ skipped = <<>>
    /\ lastList = [err |-> FALSE, resp |-> <<>>]
    /\ fetched = <<>>
    /\ calls = NoCalls
    /\ resolved = 0
    /\ treeErr = FALSE
    /\ failure = ""
    /\ scanned = <<>>

(***************************************************************************)
(* The steps of main() before the scan.                                    *)
(***************************************************************************)
initTempDir ==
    /\ pc = "init temp dir"
    /\ \E ok \in BOOLEAN :
        IF ok
        THEN /\ tempDir' = TempDirName
             /\ scratch' = [exists |-> TRUE, files |-> <<>>]
             /\ pc' = "parse flags"
             /\ failure' = failure
        ELSE /\ tempDir' = ""
             /\ Fatal("init temp dir")
    /\ UNCHANGED <<inputVars, flags, token, listVars, requests, checkers, scanVars>>

parseFlags ==
    /\ pc = "parse flags"
    /\ flags' = args
    /\ IF args.user = ""
       THEN Fatal("parse flags")
       ELSE pc' = "read token" /\ UNCHANGED <<failure, scratch>>
    /\ UNCHANGED <<inputVars, token, tempDir, listVars, requests, checkers, scanVars>>

\* the TOKEN variable, else the token file, else an error
readToken ==
    /\ pc = "read token"
    /\ \E src \in {"env", "file", "none"} :
        IF src = "none"
        THEN token' = token /\ Fatal("read token")
        ELSE token' = "secret" /\ pc' = "init client" /\ UNCHANGED <<failure, scratch>>
    /\ UNCHANGED <<inputVars, flags, tempDir, listVars, requests, checkers, scanVars>>


\* the client is built from the token; nothing here fails
initClient ==
    /\ pc = "init client"
    /\ pc' = "get repos list"
    /\ UNCHANGED <<inputVars, setupVars, scratch, listVars, requests, checkers, scanVars,
                   failure>>

(***************************************************************************)
(* getReposList.                                                           *)
(***************************************************************************)
\* a test of the hours since the last push with their fraction cut off
inactiveWholeHours(repo) == repo.pushedAgo \div 60 > hoursToExpire

\* time.Since(repo.GetPushedAt().Time).Hours() > hoursToExpire: Hours() is a
\* float64, the fraction of an hour counts
inactive(repo) == repo.pushedAgo > hoursToExpire * 60

\* the loop body with the test of the stars moved to its head
skipReasonStarsFirst(fl, repo) ==
    IF repo.StargazersCount < fl.minStars THEN "not enough stars"
    ELSE IF fl.skipForks /\ repo.Fork THEN "fork"
    ELSE IF fl.skipArchived /\ repo.Archived THEN "archived"
    ELSE IF fl.skipInactive /\ inactive(repo) THEN "inactive"
    ELSE ""

\* the branch of the loop body that skips repo: "" when it is appended
skipReason(fl, repo) ==
    IF fl.skipForks /\ repo.Fork THEN "fork"
    ELSE IF fl.skipArchived /\ repo.Archived THEN "archived"
    ELSE IF repo.StargazersCount < fl.minStars THEN "not enough stars"
    ELSE IF fl.skipInactive /\ inactive(repo) THEN "inactive"
    ELSE ""

\* the repositories of one page that the loop body appends, in order
RECURSIVE keptOf(_, _)
keptOf(fl, rs) ==
    IF rs = <<>> THEN <<>>
    ELSE (IF skipReason(fl, Head(rs)) = "" THEN <<Head(rs)>> ELSE <<>>) \o keptOf(fl, Tail(rs))

\* the skips of one page, as the debug lines name them
RECURSIVE skippedOf(_, _)
skippedOf(fl, rs) ==
    IF rs = <<>> THEN <<>>
    ELSE (IF skipReason(fl, Head(rs)) = "" THEN <<>>
          ELSE <<[Name |-> Head(rs).Name, reason |-> skipReason(fl, Head(rs))]>>)
         \o skippedOf(fl, Tail(rs))

\* the answers to one List request: repos, a response (a pointer, <<>> when
\* nil) and an error.  The account has at most MaxPages pages: the answer to
\* the last request the bound allows names no next page.
ListAnswers ==
    LET nexts == IF Len(pageLog) + 1 >= MaxPages THEN {0} ELSE remote.nexts IN
    {[repos |-> rs, resp |-> <<[NextPage |-> n]>>, err |-> FALSE] :
        rs \in remote.pages, n \in nexts}
    \cup {[repos |-> <<>>, resp |-> <<[NextPage |-> n]>>, err |-> TRUE] : n \in remote.nexts}
    \cup {[repos |-> <<>>, resp |-> <<>>, err |-> TRUE]}

\* a counter of the requests that were answered without an error
requestsAnswered(n, err) == IF err THEN n ELSE n + 1

\* l.requests++ after a call of the client, before its error is looked at
requestsAfter(n, err) == n + 1

\* if err != nil { if resp.NextPage == 0 && opts.Page > 1 { return nil } ... }
lastPageError(resp, p) == resp.NextPage = 0 /\ p > 1

\* a loop that counts the pages up by itself
pageAfter(resp, p) == p + 1

\* opts.Page = resp.NextPage
nextPage(resp, p) == resp.NextPage

\* one turn of the loop of getReposList: one List request and what follows it
getReposList ==
    /\ pc = "get repos list"
    /\ \E a \in ListAnswers :
        /\ requests' = requestsAfter(requests, a.err)
        /\ pageLog' = Append(pageLog, page)
        /\ lastList' = [err |-> a.err, resp |-> a.resp]
        /\ IF a.err
           THEN /\ UNCHANGED <<repos, page, listed, skipped>>
                /\ IF a.resp = <<>>
                   THEN Panic("nil response")
                   ELSE IF lastPageError(a.resp[1], page)
                   THEN pc' = "disable checkers" /\ UNCHANGED <<failure, scratch>>
                   ELSE Fatal("get repos list")
           ELSE /\ repos' = repos \o keptOf(flags, a.repos)
                /\ listed' = listed \o a.repos
                /\ skipped' = skipped \o skippedOf(flags, a.repos)
                /\ UNCHANGED <<failure, scratch>>
                /\ IF a.resp[1].NextPage = 0
                   THEN pc' = "disable checkers" /\ page' = page
                   ELSE pc' = pc /\ page' = nextPage(a.resp[1], page)
    /\ UNCHANGED <<inputVars, setupVars, checkers, scanVars>>

(***************************************************************************)
(* disableCheckers.                                                        *)
(***************************************************************************)
\* disableCheckers without strings.TrimSpace
RECURSIVE deleteUntrimmed(_, _)
deleteUntrimmed(reg, names) ==
    IF names = <<>> THEN reg ELSE deleteUntrimmed(reg \ {Head(names)}, Tail(names))

\* the map after delete(l.checkers, strings.TrimSpace(name)) for every name
\* of strings.Split(l.disable, ",")
RECURSIVE deleteAll(_, _)
deleteAll(reg, names) ==
    IF names = <<>> THEN reg ELSE deleteAll(reg \ {TrimSpace(Head(names))}, Tail(names))

disableCheckers ==
    /\ pc = "disable checkers"
    /\ checkers' = deleteAll(checkers, Split(flags.disable, ","))
    /\ pc' = "lint repos"
    /\ UNCHANGED <<inputVars, setupVars, scratch, listVars, requests, scanVars, failure>>


(***************************************************************************)
(* lintRepos and lintRepo.  Go ranges over the map of checkers in an       *)
(* order of its own choosing: every loop over it takes the checkers left   *)
(* in any order.                                                           *)
(***************************************************************************)
\* lintRepos is entered: i := l.offset
lintRepos ==
    /\ pc = "lint repos"
    /\ pos.at = "start"
    /\ i' = flags.offset
    /\ pos' = [pos EXCEPT !.at = "loop"]
    /\ UNCHANGED <<inputVars, pc, setupVars, scratch, listVars, requests, checkers, chk,
                   files, printed, fetched, calls, resolved, treeErr, scanned, failure>>

\* the loop of lintRepos is over: lintRepos returns nil, main() returns and
\* its deferred cleanup runs
lintReposReturn ==
    /\ pc = "lint repos"
    /\ pos.at = "loop"
    /\ ~(i < Len(repos))
    /\ pc' = "done"
    /\ scratch' = cleanup
    /\ UNCHANGED <<inputVars, setupVars, listVars, requests, checkers, scanVars, failure>>

\* the loop over tree.Entries of collectRepoFiles
RECURSIVE filesOf(_, _)
filesOf(fl, entries) ==
    IF entries = <<>> THEN <<>>
    ELSE (IF Head(entries).Path = <<>> THEN <<>>
          ELSE IF fl.skipVendor /\ vendorRE(Head(entries).Path[1]) THEN <<>>
          ELSE <<repoFile(Head(entries).Path[1])>>)
         \o filesOf(fl, Tail(entries))

\* the value of a table of the account at a key, the default when it has none
Lookup(table, key, default) == IF key \in DOMAIN table THEN table[key] ELSE default

\* the answers to GetTree for a repository: an error, or its tree
TreeAnswers(name) ==
    {[err |-> TRUE, Entries |-> <<>>],
     [err |-> FALSE, Entries |-> Lookup(remote.trees, name, <<>>)]}

\* collectRepoFiles: nil on an error
collectRepoFiles(fl, a) == IF a.err THEN <<>> ELSE filesOf(fl, a.Entries)

\* where lintRepo is after the loop over the checkers that ends with CheckFiles
ScanEnd == [at |-> "loop", todo |-> {}, cur |-> "", k |-> 0]

\* where lintRepo is when the loop that calls CheckFiles begins
CheckStart ==
    IF checkers = {} THEN ScanEnd ELSE [at |-> "check", todo |-> checkers, cur |-> "", k |-> 0]

\* where lintRepo is when the loop that calls resolveRequirements begins
ResolveStart(fs) ==
    IF fs = <<>> THEN CheckStart ELSE [at |-> "resolve", todo |-> {}, cur |-> "", k |-> 1]

\* where lintRepo is when the loop that calls Reset and PushFile begins
PushStart(fs) ==
    IF checkers = {} THEN ResolveStart(fs)
    ELSE [at |-> "push", todo |-> checkers, cur |-> "", k |-> 0]

\* a first loop that leaves for the second one after its first checker
pushOneChecker(todo, fs) == ResolveStart(fs)

\* where lintRepo is once the checker it pushed to has seen the last file
PushNext(todo, fs) ==
    IF todo = {} THEN ResolveStart(fs) ELSE [at |-> "push", todo |-> todo, cur |-> "", k |-> 0]

\* the body of the loop of lintRepos begins: repo := l.repos[i], which panics
\* when the offset made i negative, then lintRepo(repo): the tree is fetched
\* and the files are collected
lintRepo ==
    /\ pc = "lint repos"
    /\ pos.at = "loop"
    /\ i < Len(repos)
    /\ IF i < 0
       THEN /\ Panic("index out of range")
            /\ UNCHANGED <<requests, treeErr, files, pos, i, scanned, fetched, calls,
                           resolved, printed>>
       ELSE /\ \E a \in TreeAnswers(repos[i + 1].Name) :
                /\ requests' = requestsAfter(requests, a.err)
                /\ treeErr' = a.err
                /\ files' = collectRepoFiles(flags, a)
                /\ pos' = PushStart(collectRepoFiles(flags, a))
            /\ i' = IF pos'.at = "loop" THEN i + 1 ELSE i
            /\ scanned' = Append(scanned, i)
            /\ fetched' = <<>>
            /\ calls' = NoCalls
            /\ resolved' = 0
            /\ printed' = <<>>
            /\ UNCHANGED <<pc, scratch, failure>>
    /\ UNCHANGED <<inputVars, setupVars, listVars, checkers, chk>>

\* the first loop takes its next checker c: c.Reset(repo), and the loop over
\* the files begins
ResetChecker(c) ==
    /\ pc = "lint repos"
    /\ pos.at = "push"
    /\ pos.cur = ""
    /\ c \in pos.todo
    /\ chk' = [chk EXCEPT ![c] = Reset(@, repos[i + 1].Name)]
    /\ calls' = [calls EXCEPT ![c].Reset = @ + 1]
    /\ pos' = IF files = <<>> THEN PushNext(pos.todo \ {c}, files)
              ELSE [at |-> "push", todo |-> pos.todo \ {c}, cur |-> c, k |-> 1]
    /\ UNCHANGED <<inputVars, pc, setupVars, scratch, listVars, requests, checkers, i,
                   files, printed, fetched, resolved, treeErr, scanned, failure>>

\* c.PushFile(f) for the checker and the file the first loop is at
PushFileStep ==
    /\ pc = "lint repos"
    /\ pos.at = "push"
    /\ pos.cur # ""
    /\ \E choice \in (IF pos.cur = "code snippet" THEN SnippetChoices ELSE {"skip"}) :
        LET r == PushFile(pos.cur, chk[pos.cur], files[pos.k], [scan |-> i, at |-> pos.k],
                          choice)
        IN /\ chk' = [chk EXCEPT ![pos.cur] = r.c]
           /\ files' = [files EXCEPT ![pos.k] = r.f]
    /\ calls' = [calls EXCEPT ![pos.cur].PushFile = @ + 1]
    /\ pos' = IF pos.k = Len(files) THEN PushNext(pos.todo, files)
              ELSE [pos EXCEPT !.k = @ + 1]
    /\ UNCHANGED <<inputVars, pc, setupVars, scratch, listVars, requests, checkers, i,
                   printed, fetched, resolved, treeErr, scanned, failure>>


(***************************************************************************)
(* resolveRequirements, createLocalCopy and getContents.                   *)
(***************************************************************************)
\* the answers to GetContents for a path: an error, no file content (the path
\* is a directory), content GetContent cannot decode, or the text of the file
ContentAnswers(path) ==
    {[kind |-> kd, text |-> ""] : kd \in {"error", "nil", "undecodable"}}
    \cup {[kind |-> "content", text |-> Lookup(remote.texts, path, "")]}

\* getContents: the string it returns, or a panic when GetContent fails
getContents(a) ==
    CASE a.kind \in {"error", "nil"} -> [panic |-> FALSE, data |-> ""]
      [] a.kind = "undecodable" -> [panic |-> TRUE, data |-> ""]
      [] a.kind = "content" -> [panic |-> FALSE, data |-> a.text]

\* filepath.Join(dir, name) of two elements; name holds no slash here
Join(dir, name) == IF dir = "" THEN name ELSE IF name = "" THEN dir ELSE dir \o "/" \o name

\* the scratch path createLocalCopy writes a file to
scratchName(dir, origName) == Join(dir, Replace(origName, "/", "_(slash)_"))

\* resolveRequirements without its first statement
noImpliedLocalCopy(f) == f

\* a resolveRequirements that asks for a copy of every file
alwaysLocalCopy(f) == requireLocalCopy(f)

\* the first statement of resolveRequirements
impliedLocalCopy(f) == IF f.require.contents THEN requireLocalCopy(f) ELSE f

\* a resolveRequirements that copies every file it has no copy of
anyFileNeedsLocalCopy(f) == f.tempName = ""

\* whether resolveRequirements calls createLocalCopy
needsLocalCopy(f) == impliedLocalCopy(f).require.localCopy /\ f.tempName = ""

\* a createLocalCopy that keeps the text of every file it fetched
alwaysKeptContents(f, data) == data

\* f.contents after "if f.require.contents { f.contents = data }"
keptContents(f, data) == IF f.require.contents THEN data ELSE f.contents

\* createLocalCopy(repo, f) on the answer a, the write succeeding or not: the
\* file after it, and the panic that ended it ("" when it returned)
createLocalCopy(f, dir, a, written) ==
    IF getContents(a).panic THEN [panic |-> "get contents", f |-> f]
    ELSE IF ~written
    THEN [panic |-> "write", f |-> [f EXCEPT !.contents = keptContents(f, getContents(a).data)]]
    ELSE [panic |-> "",
          f |-> [f EXCEPT !.contents = keptContents(f, getContents(a).data),
                          !.tempName = scratchName(dir, f.origName)]]

\* ioutil.WriteFile(name, data): the directory's files after it
writeFile(fsys, name, data) ==
    [n \in DOMAIN fsys \cup {name} |-> IF n = name THEN data ELSE fsys[n]]

\* where lintRepo is after resolveRequirements of file k
ResolveNext(k, fs) ==
    IF k = Len(fs) THEN CheckStart ELSE [at |-> "resolve", todo |-> {}, cur |-> "", k |-> k + 1]

\* resolveRequirements(repo, f) for the file the second loop is at
resolveRequirements ==
    /\ pc = "lint repos"
    /\ pos.at = "resolve"
    /\ resolved' = resolved + 1
    /\ IF needsLocalCopy(files[pos.k])
       THEN \E a \in ContentAnswers(files[pos.k].origName), written \in BOOLEAN :
             LET r == createLocalCopy(impliedLocalCopy(files[pos.k]), tempDir, a, written) IN
             /\ requests' = requestsAfter(requests, a.kind = "error")
             /\ fetched' = Append(fetched, [at |-> pos.k, path |-> files[pos.k].origName,
                                            kind |-> a.kind, data |-> getContents(a).data,
                                            wrote |-> r.f.tempName])
             /\ files' = [files EXCEPT ![pos.k] = r.f]
             /\ IF r.panic # ""
                THEN Panic(r.panic) /\ UNCHANGED <<pos, i>>
                ELSE /\ scratch' = [scratch EXCEPT !.files =
                                       writeFile(@, r.f.tempName, getContents(a).data)]
                     /\ pos' = ResolveNext(pos.k, files)
                     /\ i' = IF pos'.at = "loop" THEN i + 1 ELSE i
                     /\ UNCHANGED <<pc, failure>>
       ELSE /\ files' = [files EXCEPT ![pos.k] = impliedLocalCopy(@)]
            /\ pos' = ResolveNext(pos.k, files)
            /\ i' = IF pos'.at = "loop" THEN i + 1 ELSE i
            /\ UNCHANGED <<pc, failure, scratch, requests, fetched>>
    /\ UNCHANGED <<inputVars, setupVars, listVars, checkers, chk, printed, calls, treeErr,
                   scanned>>

(***************************************************************************)
(* The last loop of lintRepo: CheckFiles and the printing of its warnings. *)
(***************************************************************************)
\* a loop that prints the first warning of a checker and drops the others
printFirstLine(user, repo, name, warnings) ==
    IF warnings = <<>> THEN <<>>
    ELSE <<[user |-> user, repo |-> repo, name |-> name, warning |-> warnings[1]]>>

\* the Printf of lintRepo, one line for every warning of the checker name
printLines(user, repo, name, warnings) ==
    [j \in 1..Len(warnings) |->
        [user |-> user, repo |-> repo, name |-> name, warning |-> warnings[j]]]

\* the text of a printed line
Line(p) == "github.com/" \o p.user \o "/" \o p.repo \o ": " \o p.name \o ": " \o p.warning

\* where lintRepo is after CheckFiles of a checker, todo being the ones left
CheckNext(todo) ==
    IF todo = {} THEN ScanEnd ELSE [at |-> "check", todo |-> todo, cur |-> "", k |-> 0]

\* the last loop takes its next checker c: c.CheckFiles(), every warning printed
CheckFilesStep(c) ==
    /\ pc = "lint repos"
    /\ pos.at = "check"
    /\ c \in pos.todo
    /\ calls' = [calls EXCEPT ![c].CheckFiles = @ + 1]
    /\ \E r \in CheckFiles(c, chk[c], files) :
        IF r.panic
        THEN Panic("check files") /\ UNCHANGED <<printed, pos, i>>
        ELSE /\ printed' = printed \o printLines(flags.user, repos[i + 1].Name, c, r.warnings)
             /\ pos' = CheckNext(pos.todo \ {c})
             /\ i' = IF pos'.at = "loop" THEN i + 1 ELSE i
             /\ UNCHANGED <<pc, failure, scratch>>
    /\ UNCHANGED <<inputVars, setupVars, listVars, requests, checkers, chk, files, fetched,
                   resolved, treeErr, scanned>>

(***************************************************************************)
(* The runs the model explores.                                            *)
(***************************************************************************)
\* the repositories of the accounts: an ordinary one, one at the edge of every
\* filter, and one every filter skips
RepoA == Repository("a", FALSE, FALSE, 5, 60)

RepoB == Repository("b", FALSE, FALSE, 1, hoursToExpire * 60)

RepoAll == Repository("all", TRUE, TRUE, 0, hoursToExpire * 60 + 1)

\* repositories around the threshold of inactivity: one minute and one hour
\* beyond it
RepoLate == Repository("late", FALSE, FALSE, 1, hoursToExpire * 60 + 1)

RepoOld == Repository("old", FALSE, FALSE, 1, (hoursToExpire + 1) * 60)

\* a tree of the account, cut to the MaxFiles entries the model follows
Cut(entries) == SubSeq(entries, 1, Min(MaxFiles, Len(entries)))

(* an account of documentation: a README two checkers ask for, a LICENSE, a   *)
(* source file nobody asks for                                                *)
DocsRemote ==
    [pages |-> {<<RepoA, RepoB>>},
     nexts |-> {0},
     trees |-> [n \in {"a", "b"} |->
        IF n = "a"
        THEN Cut(<<Entry("README.md"), Entry("LICENSE"), Entry("src/main.go"),
                   Entry("docs/TODO")>>)
        ELSE Cut(<<Entry("CONTRIBUTING")>>)],
     texts |-> [p \in {"README.md", "LICENSE", "CONTRIBUTING"} |->
        CASE p = "README.md" -> "see the sql docs\n$GOPAHT"
          [] p = "LICENSE" -> "Copyright (c) year full name"
          [] p = "CONTRIBUTING" -> "set $PAHT"]]

(* an account of paths: vendor directories, editor files, an entry with no path *)
PathsRemote ==
    [pages |-> {<<RepoA, RepoB>>},
     nexts |-> {0},
     trees |-> [n \in {"a", "b"} |->
        IF n = "a"
        THEN Cut(<<Entry("vendor/README"), Entry("myvendor/TODO"), Entry("docs/.#x~"),
                   NilEntry>>)
        ELSE Cut(<<Entry("vendor/foo.go"), Entry("node_modules/bar.js"),
                   Entry("src/main.go")>>)],
     texts |-> [p \in {"vendor/README", "myvendor/TODO"} |-> "a link"]]

(* an account of one small repository *)
SmallRemote ==
    [pages |-> {<<RepoA>>},
     nexts |-> {0},
     trees |-> [n \in {"a"} |-> Cut(<<Entry("TODO")>>)],
     texts |-> [p \in {"TODO"} |-> "gnu sql"]]

(* an account of one repository with a directory README and a file whose name *)
(* holds the text a slash is flattened to                                     *)
FlatRemote ==
    [pages |-> {<<RepoA>>},
     nexts |-> {0},
     trees |-> [n \in {"a"} |-> Cut(<<Entry("README/TODO"), Entry("README_(slash)_TODO")>>)],
     texts |-> [p \in {"README/TODO", "README_(slash)_TODO"} |->
        IF p = "README/TODO" THEN "to do" ELSE "read me"]]

(* an account of READMEs and LICENSEs at the root, below it, and as the name   *)
(* of a directory                                                             *)
RootsRemote ==
    [pages |-> {<<RepoA, RepoB>>},
     nexts |-> {0},
     trees |-> [n \in {"a", "b"} |->
        IF n = "a"
        THEN Cut(<<Entry("Readme.rst"), Entry("COPYING"), Entry("docs/LICENSE")>>)
        ELSE Cut(<<Entry("docs/README.md"), Entry("README.d/notes"), Entry("licence-mit")>>)],
     texts |-> <<>>]

(* an account of documentation for the line scanners: acronyms as words, in   *)
(* longer words and capitalised; variables with a typo, braced and not        *)
WordsRemote ==
    [pages |-> {<<RepoA>>},
     nexts |-> {0},
     trees |-> [n \in {"a"} |->
        Cut(<<Entry("README"), Entry("docs/TODO.md"), Entry("CONTRIBUTING")>>)],
     texts |-> [p \in {"README", "docs/TODO.md", "CONTRIBUTING"} |->
        CASE p = "README" -> "see the sql docs"
          [] p = "docs/TODO.md" -> "use sqlite\nthe Sql way\n a gui"
          [] p = "CONTRIBUTING" -> "$CLASSPAHT and ${GOPAHT}\n$PAHTS $HOEM"]]

(* an account for the external tools: a README, a README.md whose scratch path *)
(* begins with the README's, and a source file                                *)
ToolsRemote ==
    [pages |-> {<<RepoA>>},
     nexts |-> {0},
     trees |-> [n \in {"a"} |->
        Cut(<<Entry("README"), Entry("README.md"), Entry("src/main.go")>>)],
     texts |-> [p \in {"README", "README.md"} |->
        IF p = "README" THEN "http://a.test" ELSE "existance"]]

(* an account of editor and system files: the second is unwanted twice over *)
LitterRemote ==
    [pages |-> {<<RepoA>>},
     nexts |-> {0},
     trees |-> [n \in {"a"} |-> Cut(<<Entry("a.swp"), Entry("src/.#b~"), Entry("Thumbs.db")>>)],
     texts |-> <<>>]

(* an account of empty repositories last pushed around the threshold *)
AgesRemote ==
    [pages |-> {<<RepoB, RepoLate, RepoOld>>},
     nexts |-> {0},
     trees |-> [n \in {"b", "late", "old"} |-> <<>>],
     texts |-> <<>>]

(* an account of several pages, its repositories empty *)
PagesRemote ==
    [pages |-> {<<RepoAll, RepoB>>},
     nexts |-> {0, 1, 2},
     trees |-> [n \in {"all", "b"} |-> <<>>],
     texts |-> <<>>]

OnlyDocs == "missing file, acronym, broken link, unwanted file, code snippet"

OnlyCopies == OnlyDocs \o ", var name typo"

OnlyAcronym ==
    "missing file,broken link,misspell,var name typo,unwanted file,sloppy copyright,code snippet"

OnlyPaths == " misspell ,nosuch,var name typo, sloppy copyright,acronym,code snippet"

OnlyWords == "missing file,broken link,misspell,unwanted file,sloppy copyright,code snippet"

OnlyTools ==
    "missing file,acronym,var name typo,unwanted file,sloppy copyright,code snippet"

OnlyUnwanted ==
    "missing file,broken link,misspell,var name typo,acronym,sloppy copyright,code snippet"

OnlyNames == "broken link,misspell,var name typo,sloppy copyright,acronym,code snippet"

OnlyMissing ==
    "broken link,misspell,var name typo,unwanted file,sloppy copyright,acronym,code snippet"

NoChecker == OnlyMissing \o ",missing file"

Worlds ==
    {[args |-> [DefaultArgs EXCEPT !.disable = d], remote |-> DocsRemote] :
        d \in {OnlyDocs, OnlyCopies}}
    \cup {[args |-> [DefaultArgs EXCEPT !.disable = OnlyAcronym], remote |-> SmallRemote]}
    \cup {[args |-> [DefaultArgs EXCEPT !.disable = OnlyCopies], remote |-> FlatRemote]}
    \cup {[args |-> [DefaultArgs EXCEPT !.disable = OnlyMissing], remote |-> RootsRemote]}
    \cup {[args |-> [DefaultArgs EXCEPT !.disable = OnlyWords], remote |-> WordsRemote]}
    \cup {[args |-> [DefaultArgs EXCEPT !.disable = OnlyTools], remote |-> ToolsRemote]}
    \cup {[args |-> [DefaultArgs EXCEPT !.disable = NoChecker, !.skipInactive = n],
           remote |-> AgesRemote] : n \in BOOLEAN}
    \cup {[args |-> [DefaultArgs EXCEPT !.disable = d], remote |-> LitterRemote] :
            d \in {OnlyUnwanted, OnlyNames}}
    \cup {[args |-> [DefaultArgs EXCEPT !.disable = OnlyPaths, !.skipVendor = v],
           remote |-> PathsRemote] : v \in BOOLEAN}
    \cup {[args |-> [DefaultArgs EXCEPT !.offset = o], remote |-> SmallRemote] :
            o \in {-1, 0, 1}}
    \cup {[args |-> [DefaultArgs EXCEPT !.disable = OnlyMissing, !.offset = 1],
           remote |-> RootsRemote]}
    \cup {[args |-> [DefaultArgs EXCEPT !.user = u, !.disable = NoChecker],
           remote |-> SmallRemote] : u \in {"", "quasilyte"}}
    \cup {[args |-> [DefaultArgs EXCEPT !.disable = OnlyMissing, !.skipForks = f,
                                       !.skipArchived = a, !.skipInactive = n, !.minStars = m],
           remote |-> PagesRemote] : f \in BOOLEAN, a \in BOOLEAN, n \in BOOLEAN, m \in {0, 1}}

Init == InitWith(Worlds)

Next ==
    \/ initTempDir
    \/ parseFlags
    \/ readToken
    \/ initClient
    \/ getReposList
    \/ disableCheckers
    \/ lintRepos
    \/ lintReposReturn
    \/ lintRepo
    \/ \E c \in Registry : ResetChecker(c)
    \/ PushFileStep
    \/ resolveRequirements
    \/ \E c \in Registry : CheckFilesStep(c)

Spec == Init /\ [][Next]_vars

(***************************************************************************)
(* What the scans are checked against.                                     *)
(***************************************************************************)
\* a file some checker set a requirement flag on
Flagged(f) == f.require.localCopy \/ f.require.contents

\* the getContents calls of this scan made for file k
FetchesOf(k) == {j \in DOMAIN fetched : fetched[j].at = k}

\* the checkers of this scan that retained file k
RetainedBy(k) == {c \in checkers : \E j \in DOMAIN chk[c].files : chk[c].files[j].at = k}

\* the first loop of lintRepo is over: every checker left in the registry was
\* reset once and saw every file
PushDone == \A c \in checkers : calls[c].Reset = 1 /\ calls[c].PushFile = Len(files)

\* some CheckFiles was called in this scan
Checking == \E c \in Registry : calls[c].CheckFiles > 0

(* C1: in one scan the content of a file is fetched at most once, however      *)
(* many checkers flagged it: of the files resolveRequirements was called for,  *)
(* exactly the flagged ones were fetched, once each, so that the fetches of a  *)
(* scan whose second loop is over number the flagged files, not the pairs of   *)
(* a checker and a file.                                                       *)
C1_OneFetchPerFlaggedFile ==
    /\ \A k \in DOMAIN files : Cardinality(FetchesOf(k)) <= 1
    /\ \A j \in DOMAIN fetched : fetched[j].at \in DOMAIN files
    /\ \A k \in DOMAIN files :
        k <= resolved => (FetchesOf(k) # {} <=> Flagged(files[k]))
    /\ \A k \in DOMAIN files : k > resolved => FetchesOf(k) = {}
    /\ resolved = Len(files) =>
        Len(fetched) = Cardinality({k \in DOMAIN files : Flagged(files[k])})

\* the last loop is reached with a file two checkers retained and flagged,
\* fetched once
C1_Witness ==
    /\ pos.at = "check"
    /\ \E k \in DOMAIN files :
        /\ Cardinality(RetainedBy(k)) >= 2
        /\ Flagged(files[k])
        /\ Cardinality(FetchesOf(k)) = 1
    /\ Len(fetched) < Cardinality({<<c, k>> \in checkers \X DOMAIN files : c \in RetainedBy(k)})

(* C2: a file of the scanned repository that no checker set a requirement      *)
(* flag on is never fetched and never copied: no getContents is made for it,   *)
(* and its tempName and contents stay empty.                                   *)
C2_UnflaggedNeverMaterialized ==
    \A k \in DOMAIN files :
        ~Flagged(files[k]) =>
            /\ FetchesOf(k) = {}
            /\ files[k].tempName = ""
            /\ files[k].contents = ""

\* the last loop is reached with a file no checker flagged, beside one that
\* was fetched and copied
C2_Witness ==
    /\ pos.at = "check"
    /\ \E k \in DOMAIN files : ~Flagged(files[k])
    /\ \E j \in DOMAIN fetched : fetched[j].wrote # ""

(* C3: the phases of a scan do not overlap: resolveRequirements is not called  *)
(* before every checker left was reset and saw every file, no CheckFiles is    *)
(* called before that and before resolveRequirements was called for every      *)
(* file, and so every flagged file has its scratch path when CheckFiles runs,  *)
(* whichever checker flagged it last.                                          *)
C3_PhasesDoNotOverlap ==
    /\ pos.at = "push" => resolved = 0 /\ ~Checking
    /\ resolved > 0 => PushDone
    /\ pos.at = "resolve" => ~Checking
    /\ (Checking \/ pos.at = "check") =>
        /\ PushDone
        /\ resolved = Len(files)
        /\ \A k \in DOMAIN files : Flagged(files[k]) => files[k].tempName # ""

\* a CheckFiles was called in a scan of two checkers that flagged one file
\* each: the one that pushed last has its file copied as well
C3_Witness ==
    /\ Checking
    /\ \E c, d \in checkers, k, m \in DOMAIN files :
        /\ c # d /\ k # m
        /\ RetainedBy(k) = {c} /\ RetainedBy(m) = {d}
        /\ Flagged(files[k]) /\ Flagged(files[m])
        /\ files[k].tempName # "" /\ files[m].tempName # ""

(* C4: while the last loop of a scan runs, from the first CheckFiles on, every *)
(* file has: contents required only with a local copy required; a local copy  *)
(* required only with a scratch path recorded; contents required only with    *)
(* the string getContents returned in memory; and empty contents when only    *)
(* the local copy is required.                                                 *)
C4_ResolvedFiles ==
    pos.at = "check" =>
        \A k \in DOMAIN files :
            /\ files[k].require.contents => files[k].require.localCopy
            /\ files[k].require.localCopy => files[k].tempName # ""
            /\ files[k].require.contents =>
                \E j \in FetchesOf(k) : files[k].contents = fetched[j].data
            /\ (files[k].require.localCopy /\ ~files[k].require.contents) =>
                files[k].contents = ""

\* the first CheckFiles is about to begin, with a file whose text is kept in
\* memory and a file that was fetched with text and only copied
C4_Witness ==
    /\ pos.at = "check"
    /\ pos.todo = checkers
    /\ \E k \in DOMAIN files : files[k].require.contents /\ files[k].contents # ""
    /\ \E k \in DOMAIN files :
        /\ files[k].require.localCopy /\ ~files[k].require.contents
        /\ \E j \in FetchesOf(k) : fetched[j].data # ""

(* C5: a failed content request (an error, no content object, content that    *)
(* cannot be decoded) never aborts the scan: the file is materialized as empty *)
(* content and the run does not end on it.                                     *)
C5_FetchFailureNeverAborts ==
    \A j \in DOMAIN fetched :
        fetched[j].kind \in {"error", "nil", "undecodable"} =>
            /\ failure # "get contents"
            /\ fetched[j].data = ""
            /\ (failure # "write" => files[fetched[j].at].tempName # "")

(* C6: when GetTree fails the scan has no file and still completes: nothing is *)
(* fetched, no PushFile is called, the run does not end in it, every checker   *)
(* left is reset and gets its CheckFiles (the missing file checker then        *)
(* reports both the README and the LICENSE), and once they are over the loop   *)
(* of lintRepos is at the next repository.                                     *)
C6_TreeFailureScanCompletes ==
    treeErr =>
        /\ files = <<>>
        /\ fetched = <<>>
        /\ pc \in {"lint repos", "done"}
        /\ \A c \in checkers : calls[c].PushFile = 0
        /\ pos.at = "loop" =>
            /\ \A c \in checkers : calls[c].Reset = 1 /\ calls[c].CheckFiles = 1
            /\ i = scanned[Len(scanned)] + 1
        /\ pos.at # "loop" => i = scanned[Len(scanned)]
        /\ ("missing file" \in checkers /\ calls["missing file"].CheckFiles = 1) =>
            \A w \in {"missing root README file", "missing root LICENSE file"} :
                \E j \in DOMAIN printed :
                    /\ printed[j].name = "missing file"
                    /\ printed[j].warning = w
                    /\ printed[j].repo = repos[scanned[Len(scanned)] + 1].Name

\* a scan whose tree request failed is over, the missing file checker has
\* printed, and a repository is left to scan
C6_Witness ==
    /\ treeErr
    /\ pos.at = "loop"
    /\ pc = "lint repos"
    /\ "missing file" \in checkers
    /\ Len(printed) = 2
    /\ i < Len(repos)

\* the listing error getReposList is said to tolerate
C7_Tolerated == lastList.resp # <<>> /\ lastList.resp[1].NextPage = 0 /\ page > 1

(* C7: a listing error is tolerated (the step succeeds, the repositories of    *)
(* the earlier pages are kept) only on a page after the first whose response   *)
(* names no next page; any other listing error, one with no response at all    *)
(* included, ends the run with the fatal error of the step before any          *)
(* repository is linted.                                                       *)
C7_ListingErrors ==
    lastList.err =>
        IF C7_Tolerated
        THEN /\ failure \notin {"get repos list", "nil response"}
             /\ repos = keptOf(flags, listed)
        ELSE /\ pc = "fatal"
             /\ failure = "get repos list"
             /\ scanned = <<>>

\* the skip reason of a listed repository as the filters are ordered: "" when
\* no filter applies
C8_Reason(repo) ==
    CASE flags.skipForks /\ repo.Fork -> "fork"
      [] ~(flags.skipForks /\ repo.Fork) /\ flags.skipArchived /\ repo.Archived -> "archived"
      [] /\ ~(flags.skipForks /\ repo.Fork)
         /\ ~(flags.skipArchived /\ repo.Archived)
         /\ repo.StargazersCount < flags.minStars -> "not enough stars"
      [] /\ ~(flags.skipForks /\ repo.Fork)
         /\ ~(flags.skipArchived /\ repo.Archived)
         /\ ~(repo.StargazersCount < flags.minStars)
         /\ flags.skipInactive /\ inactive(repo) -> "inactive"
      [] OTHER -> ""

C8_Kept(repo) == C8_Reason(repo) = ""

C8_Skipped(repo) == C8_Reason(repo) # ""

(* C8: a listed repository is in the catalog if and only if no filter applies  *)
(* to it, the filters being fork, archived, stars below minStars (whatever the *)
(* skip flags are) and inactive, in this order, the first that applies being   *)
(* the one skip reason; the catalog keeps the order of the listing across the  *)
(* pages.                                                                      *)
C8_CatalogFilter ==
    /\ repos = SelectSeq(listed, C8_Kept)
    /\ skipped = [j \in 1..Len(SelectSeq(listed, C8_Skipped)) |->
                    [Name |-> SelectSeq(listed, C8_Skipped)[j].Name,
                     reason |-> C8_Reason(SelectSeq(listed, C8_Skipped)[j])]]

\* two pages were listed with every skip flag off: the repository below
\* minStars was skipped for its stars both times, the other was kept both times
C8_Witness ==
    /\ pc = "disable checkers"
    /\ ~flags.skipForks /\ ~flags.skipArchived /\ ~flags.skipInactive
    /\ Len(pageLog) = 2
    /\ Len(listed) = 4
    /\ Len(repos) = 2
    /\ \A j \in DOMAIN skipped : skipped[j].reason = "not enough stars"

\* a segment of the path is one of the vendor directories
C9_VendorSegment(path) ==
    \E j \in DOMAIN Split(path, "/") :
        /\ j < Len(Split(path, "/"))
        /\ Split(path, "/")[j] \in {"vendor", "node_modules", "cargo-vendor", "third-party",
                                    "third_party"}

\* the paths collectRepoFiles is said to keep of the entries
RECURSIVE C9_KeptPaths(_)
C9_KeptPaths(entries) ==
    IF entries = <<>> THEN <<>>
    ELSE (IF Head(entries).Path = <<>> THEN <<>>
          ELSE IF flags.skipVendor /\ C9_VendorSegment(Head(entries).Path[1]) THEN <<>>
          ELSE <<Head(entries).Path[1]>>)
         \o C9_KeptPaths(Tail(entries))

(* C9: with skipVendor on, collectRepoFiles drops a path if and only if one of *)
(* its directory segments is exactly a vendor directory (myvendor/x.go is      *)
(* kept), before any PushFile; with skipVendor off it drops none.              *)
C9_VendorFilter ==
    (scanned # <<>> /\ ~treeErr) =>
        [k \in DOMAIN files |-> files[k].origName]
            = C9_KeptPaths(Lookup(remote.trees, repos[scanned[Len(scanned)] + 1].Name, <<>>))

\* disableCheckers has run
C10_AfterDisable == pc \in {"lint repos", "done"} \/ scanned # <<>>

\* some checker left in the registry sets a requirement flag on the path
C10_FlaggedByEnabled(path) ==
    \E c \in checkers, choice \in SnippetChoices :
        Flagged(PushFile(c, newChecker, repoFile(path), [scan |-> 0, at |-> 1], choice).f)

(* C10: after disableCheckers the registry is the initial one less the names   *)
(* of the disable setting, split at the commas and trimmed of white space      *)
(* (unknown names change nothing); from then on a disabled checker gets no     *)
(* Reset, PushFile or CheckFiles, retains and flags no file, and no printed    *)
(* line carries its name.                                                      *)
C10_DisabledCheckersAreGone ==
    C10_AfterDisable =>
        /\ LET names == Split(flags.disable, ",")
               trimmed == {TrimSpace(names[j]) : j \in DOMAIN names}
           IN checkers = Registry \ trimmed
        /\ \A c \in Registry \ checkers :
            /\ calls[c] = [Reset |-> 0, PushFile |-> 0, CheckFiles |-> 0]
            /\ chk[c] = newChecker
            /\ \A j \in DOMAIN printed : printed[j].name # c
        /\ \A k \in DOMAIN files :
            Flagged(files[k]) => C10_FlaggedByEnabled(files[k].origName)

\* a scan printed warnings under a disable setting with white space around a
\* name and a name that is no checker's, a documentation file being flagged
C10_Witness ==
    /\ pc = "lint repos"
    /\ flags.disable = OnlyPaths
    /\ checkers = {"missing file", "broken link", "unwanted file"}
    /\ \E k \in DOMAIN files : Flagged(files[k])
    /\ \E j \in DOMAIN printed : printed[j].name = "broken link"

\* the process is over: main() returned, log.Fatalf exited, or a panic unwound
Exited == pc \in {"done", "fatal", "panic"}

(* C11: however the process ends once the scratch directory was created (the   *)
(* steps all succeed, a step returns an error, a panic occurs in a scan), the  *)
(* scratch directory and the copies in it are gone when the process exits.     *)
C11_ScratchRemovedAtExit == Exited => ~scratch.exists

\* the step whose error ended the run is the k-th or an earlier one
FailedBy(k) == \E j \in 1..k : failure = Steps[j]

\* what holds once a step has returned an error: the process has exited, and
\* the steps after the failed one have left no trace
C12_FailureHalts ==
    /\ (\E k \in DOMAIN Steps : failure = Steps[k]) =>
        /\ pc = "fatal"
        /\ FailedBy(1) => flags = ZeroFlags
        /\ FailedBy(2) => token = ""
        /\ FailedBy(4) => requests = 0
        /\ FailedBy(5) => checkers = Registry
        /\ requests = Len(pageLog)
        /\ scanned = <<>>
        /\ calls = NoCalls
        /\ printed = <<>>
    /\ (args.user = "" /\ pc \notin {"init temp dir", "parse flags"}) => pc = "fatal"

\* a step is followed by the next step of the table, or by the end of the process
C12_NextStep ==
    pc' # pc =>
        \/ pc' \in {"fatal", "panic", "done"}
        \/ \E k \in 1..(Len(Steps) - 1) : pc = Steps[k] /\ pc' = Steps[k + 1]

(* C12: the steps run in the order init temp dir, parse flags, read token,     *)
(* init client, get repos list, disable checkers, lint repos; when a step      *)
(* fails (an empty -user, an unreadable token, a fatal listing error) no later *)
(* step runs: no tree is fetched, no checker is called, no line is printed.    *)
C12_StepsInOrderAndHalt == []C12_FailureHalts /\ [][C12_NextStep]_vars

\* the listing failed fatally on its second page, a repository of the first
\* page being in the catalog already: nothing was scanned
C12_Witness ==
    /\ pc = "fatal"
    /\ failure = "get repos list"
    /\ Len(pageLog) = 2
    /\ Len(repos) >= 1

\* the checkers whose CheckFiles reads nothing but the checker and its files:
\* those that run no external tool and whose source is at hand
SelfContained == Registry \ {"misspell", "broken link", "code snippet"}

(* C13: CheckFiles called twice in a row on an unchanged checker returns the   *)
(* same warnings in the same order: in every state the last loop is in, the    *)
(* list a checker's CheckFiles returns is determined by the checker and its    *)
(* files.                                                                      *)
C13_CheckFilesRepeatable ==
    pos.at = "check" =>
        \A c \in checkers \cap SelfContained :
            \A r1, r2 \in CheckFiles(c, chk[c], files) : r1 = r2

\* checker name after Reset and one PushFile of the k-th file of the scan
PushedOnce(name, k) ==
    PushFile(name, Reset(chk[name], ""), files[k], [scan |-> i, at |-> k], "skip")

\* the same after a second PushFile of that file
PushedTwice(name, k) ==
    PushFile(name, PushedOnce(name, k).c, PushedOnce(name, k).f, [scan |-> i, at |-> k], "skip")

(* C14: PushFile is idempotent: a checker that was pushed a file twice is in   *)
(* the state of one that was pushed it once, the file carries the same flags,  *)
(* and so CheckFiles returns the same list with no warning twice.              *)
C14_PushFileIdempotent ==
    \A name \in Registry \ {"code snippet"} : \A k \in DOMAIN files :
        /\ PushedTwice(name, k).c = PushedOnce(name, k).c
        /\ PushedTwice(name, k).f = PushedOnce(name, k).f
        /\ CheckFiles(name, PushedTwice(name, k).c, files)
            = CheckFiles(name, PushedOnce(name, k).c, files)

(* C15: whatever text an external tool prints (an ERROR line with no line      *)
(* after it, no header line), CheckFiles of the misspell and of the broken     *)
(* link checker returns a list and does not crash, and the run is not ended    *)
(* by a CheckFiles.                                                            *)
C15_ToolOutputNeverCrashes ==
    /\ failure # "check files"
    /\ pos.at = "check" =>
        \A c \in checkers \cap {"misspell", "broken link"} :
            \A r \in CheckFiles(c, chk[c], files) : ~r.panic

(* C16: in one scan two files of distinct original paths never get the same    *)
(* scratch path: the path of a copy determines the file it is a copy of, and   *)
(* no copy is overwritten by the copy of another file before CheckFiles runs.  *)
C16_ScratchNamesInjective ==
    \A k, m \in DOMAIN files :
        (files[k].origName # files[m].origName /\ files[k].tempName # "") =>
            files[k].tempName # files[m].tempName

\* the path is an entry of the root whose name is one of the stems or a stem,
\* one of the separators and an extension, letter case aside
C17_RootEntry(path, stems, seps) ==
    /\ ~Contains(path, "/")
    /\ \E stem \in stems :
        \/ ToLower(path) = stem
        \/ /\ HasPrefix(ToLower(path), stem)
           /\ Len(path) > Len(stem) + 1
           /\ Contains(seps, Slice(path, Len(stem), Len(stem) + 1))

C17_HasReadme == \E k \in DOMAIN files : C17_RootEntry(files[k].origName, {"readme"}, ".")

C17_HasLicense ==
    \E k \in DOMAIN files :
        C17_RootEntry(files[k].origName, {"license", "licence", "copying"}, ".-")

(* C17: once the missing file checker was reset and pushed the files of the    *)
(* scan, its CheckFiles returns "missing root README file" iff no pushed path  *)
(* is a README-like entry of the root, then "missing root LICENSE file" iff    *)
(* none is a LICENSE-like entry of the root; a README or LICENSE below the     *)
(* root does not count.                                                        *)
C17_MissingFileWarnings ==
    ("missing file" \in checkers /\ pos.at = "check") =>
        missingFileCheckFiles(chk["missing file"])
            = (IF C17_HasReadme THEN <<>> ELSE <<"missing root README file">>)
              \o (IF C17_HasLicense THEN <<>> ELSE <<"missing root LICENSE file">>)

\* the tokens of a line: its longest stretches free of white space
Fields(l) ==
    {Slice(l, a, b) : <<a, b>> \in
        {<<a, b>> \in (0..Len(l)) \X (0..Len(l)) :
            /\ a < b
            /\ \A j \in a..(b - 1) : ~IsSpace(Slice(l, j, j + 1))
            /\ a = 0 \/ IsSpace(Slice(l, a - 1, a))
            /\ b = Len(l) \/ IsSpace(Slice(l, b, b + 1))}}

\* the lines of the contents of a file
LinesOf(f) == Split(f.contents, "\n")

\* the warnings of a list that are about line n of file f
AboutLine(ws, f, n) ==
    {j \in DOMAIN ws : HasPrefix(ws[j], f.origName \o ":" \o ToString(n) \o ": ")}

\* the text of the acronym checker's warning
C18_Warning(f, n, a) ==
    f.origName \o ":" \o ToString(n) \o ": replace " \o a \o " with " \o acronymMap[a]

(* C18: the acronym checker reports a listed acronym only where it is a whole  *)
(* token of a line, with the 1-based number of that line: "see the sql docs"   *)
(* as line 1 of a retained file gives exactly one warning, for line 1 with     *)
(* SQL; the letters inside a longer word ("use sqlite") give none.             *)
C18_AcronymWholeTokens ==
    ("acronym" \in checkers /\ pos.at = "check") =>
        LET fs == Retained(chk["acronym"], files)
            ws == acronymCheckFiles(chk["acronym"], files)
        IN /\ \A j \in DOMAIN ws :
                \E k \in DOMAIN fs : \E n \in DOMAIN LinesOf(fs[k]) :
                    \E a \in DOMAIN acronymMap :
                        /\ ws[j] = C18_Warning(fs[k], n, a)
                        /\ a \in Fields(LinesOf(fs[k])[n])
           /\ \A k \in DOMAIN fs :
                LinesOf(fs[k])[1] = "see the sql docs" =>
                    /\ Cardinality(AboutLine(ws, fs[k], 1)) = 1
                    /\ \E j \in DOMAIN ws : ws[j] = C18_Warning(fs[k], 1, "sql")
           /\ \A k \in DOMAIN fs : \A n \in DOMAIN LinesOf(fs[k]) :
                LinesOf(fs[k])[n] = "use sqlite" => AboutLine(ws, fs[k], n) = {}

\* the acronym checker printed its one warning about "see the sql docs", and
\* retained a file with the line "use sqlite" and a warning on its line 3
C18_Witness ==
    /\ calls["acronym"].CheckFiles = 1
    /\ \E k \in DOMAIN files : files[k].contents = "see the sql docs"
    /\ \E k \in DOMAIN files : LinesOf(files[k])[1] = "use sqlite"
    /\ \E j \in DOMAIN printed :
        printed[j].name = "acronym" /\ printed[j].warning = "README:1: replace sql with SQL"
    /\ \E j \in DOMAIN printed :
        printed[j].name = "acronym" /\ printed[j].warning = "docs/TODO.md:3: replace gui with GUI"

\* the tokens of a line that are a listed acronym up to the case of their
\* letters and are not yet written in upper case
MiscasedAcronyms(l) ==
    {t \in Fields(l) : ToLower(t) \in DOMAIN acronymMap /\ t # acronymMap[ToLower(t)]}

(* C19: the acronym checker matches without regard to letter case: every       *)
(* token of a line of a retained file that is a listed acronym up to case and  *)
(* is not fully upper-case ("Sql") gets a warning that suggests the upper-case *)
(* acronym ("SQL").                                                            *)
C19_AcronymCaseInsensitive ==
    ("acronym" \in checkers /\ pos.at = "check") =>
        LET fs == Retained(chk["acronym"], files)
            ws == acronymCheckFiles(chk["acronym"], files)
        IN \A k \in DOMAIN fs : \A n \in DOMAIN LinesOf(fs[k]) :
            \A t \in MiscasedAcronyms(LinesOf(fs[k])[n]) :
                \E j \in DOMAIN ws :
                    ws[j] = fs[k].origName \o ":" \o ToString(n) \o ": replace " \o t
                            \o " with " \o acronymMap[ToLower(t)]

\* the occurrences of a misspelt variable in a line: the offset and the text,
\* $NAME in front of the end of the line or of a character that is not of a
\* word, or ${NAME}, for the names of the typo table
Occurrences(l) ==
    {o \in (0..Len(l)) \X DOMAIN varsMap :
        /\ At(l, o[1], o[2])
        /\ \/ HasPrefix(o[2], "${")
           \/ o[1] + Len(o[2]) = Len(l)
           \/ ~IsWord(Slice(l, o[1] + Len(o[2]), o[1] + Len(o[2]) + 1))}

\* the text of the variable typo checker's warning
C20_Warning(f, n, m) ==
    f.origName \o ":" \o ToString(n) \o ": " \o m \o " could be a misspelling of " \o varsMap[m]

(* C20: the variable typo checker gives one warning for every occurrence of    *)
(* $NAME (ending at a word boundary) or ${NAME} with NAME in the typo table,   *)
(* naming the correction of that very NAME and the 1-based line number:        *)
(* "$CLASSPAHT and ${GOPAHT}" gives two warnings, CLASSPATH and GOPATH, and    *)
(* never the correction of a shorter entry such as PAHT.                       *)
C20_VarTypoPerOccurrence ==
    ("var name typo" \in checkers /\ pos.at = "check") =>
        LET fs == Retained(chk["var name typo"], files)
            ws == varTypoCheckFiles(chk["var name typo"], files)
        IN /\ \A j \in DOMAIN ws :
                \E k \in DOMAIN fs : \E n \in DOMAIN LinesOf(fs[k]) :
                    \E o \in Occurrences(LinesOf(fs[k])[n]) :
                        ws[j] = C20_Warning(fs[k], n, o[2])
           /\ \A k \in DOMAIN fs : \A n \in DOMAIN LinesOf(fs[k]) :
                LET l == LinesOf(fs[k])[n] IN
                /\ Cardinality(AboutLine(ws, fs[k], n)) = Cardinality(Occurrences(l))
                /\ \A o \in Occurrences(l) :
                    \E j \in DOMAIN ws : ws[j] = C20_Warning(fs[k], n, o[2])
                /\ l = "$CLASSPAHT and ${GOPAHT}" =>
                    \E j \in DOMAIN ws :
                        /\ j + 1 \in DOMAIN ws
                        /\ AboutLine(ws, fs[k], n) = {j, j + 1}
                        /\ ws[j] = fs[k].origName \o ":" \o ToString(n)
                                   \o ": $CLASSPAHT could be a misspelling of CLASSPATH"
                        /\ ws[j + 1] = fs[k].origName \o ":" \o ToString(n)
                                   \o ": ${GOPAHT} could be a misspelling of GOPATH"

\* the variable typo checker printed both warnings of "$CLASSPAHT and ${GOPAHT}"
\* and the one warning of "$PAHTS $HOEM", whose first variable is no typo
C20_Witness ==
    /\ calls["var name typo"].CheckFiles = 1
    /\ \E k \in DOMAIN files : LinesOf(files[k]) = <<"$CLASSPAHT and ${GOPAHT}", "$PAHTS $HOEM">>
    /\ \E j \in DOMAIN printed :
        /\ j + 2 \in DOMAIN printed
        /\ \A d \in 0..2 : printed[j + d].name = "var name typo"
        /\ printed[j].warning = "CONTRIBUTING:1: $CLASSPAHT could be a misspelling of CLASSPATH"
        /\ printed[j + 1].warning = "CONTRIBUTING:1: ${GOPAHT} could be a misspelling of GOPATH"
        /\ printed[j + 2].warning = "CONTRIBUTING:2: $HOEM could be a misspelling of HOME"

\* an ERROR line of liche's output: indented by a tab, its text begins with ERROR
IsErrorLine(l) == HasPrefix(l, "\t") /\ HasPrefix(TrimSpace(l), "ERROR")

\* the URL an ERROR line names
UrlOf(l) == TrimSpace(From(TrimSpace(l), Len("ERROR")))

\* the details the broken link checker does not report
Unreported(detail) ==
    \/ detail = "Timeout"
    \/ Contains(detail, "no such file")
    \/ Contains(detail, "root directory is not specified")

\* the header lines of the output: not empty, not indented
IsHeaderLine(l) == l # "" /\ ~HasPrefix(l, "\t")

\* the most recent header line before line e, "" when there is none
HeaderBefore(lines, e) ==
    LET hs == {k \in 1..(e - 1) : IsHeaderLine(lines[k])} IN
    IF hs = {} THEN "" ELSE lines[CHOOSE k \in hs : \A h \in hs : h <= k]

\* the ERROR lines of the output whose following line is a detail to report
Reportable(lines) ==
    {e \in DOMAIN lines :
        /\ IsErrorLine(lines[e])
        /\ e + 1 \in DOMAIN lines
        /\ ~Unreported(TrimSpace(lines[e + 1]))}

\* the place of e among the members of S, counted from 1
Rank(S, e) == Cardinality({k \in S : k <= e})

(* C21: when liche fails, the broken link checker returns, in output order,    *)
(* one warning for every ERROR line followed by a reportable detail, made of   *)
(* the original path of the most recent header, the URL and the detail;        *)
(* "Timeout", "no such file" and "root directory is not specified" details     *)
(* give no warning, "no such host" does; when liche succeeds the list is       *)
(* empty.                                                                      *)
C21_BrokenLinkWarnings ==
    ("broken link" \in checkers /\ pos.at = "check") =>
        LET c == chk["broken link"]
            fs == Retained(c, files)
        IN \A run \in licheRuns(tempFilenames(c, files)) :
            LET r == brokenLinkCheckFiles(c, files, run)
                lines == Split(run.out, "\n")
            IN /\ ~r.panic
               /\ ~run.err => r.warnings = <<>>
               /\ run.err =>
                    /\ Len(r.warnings) = Cardinality(Reportable(lines))
                    /\ \A e \in Reportable(lines) :
                        \E k \in DOMAIN fs :
                            /\ fs[k].tempName = HeaderBefore(lines, e)
                            /\ r.warnings[Rank(Reportable(lines), e)] =
                                fs[k].origName \o ": " \o UrlOf(lines[e]) \o ": "
                                \o TrimSpace(lines[e + 1])

\* the lines of a tool's output that are not empty, in output order
NonEmptyLines(out) == SelectSeq(Split(out, "\n"), LAMBDA l : l # "")

\* a line of misspell's output is about the file whose path it begins with:
\* path:line:column: finding
IsAbout(l, f) == f.tempName # "" /\ HasPrefix(l, f.tempName \o ":")

(* C22: when misspell fails, the misspell checker returns one warning for      *)
(* every non-empty output line, in output order, with the scratch path of      *)
(* each accepted file replaced by that file's original path (also when one     *)
(* scratch path begins with another, README and README.md), so that no         *)
(* warning holds a scratch path; when misspell succeeds the list is empty.     *)
C22_MisspellWarnings ==
    ("misspell" \in checkers /\ pos.at = "check") =>
        LET c == chk["misspell"]
            fs == Retained(c, files)
        IN \A run \in misspellRuns(tempFilenames(c, files)) :
            LET ws == misspellCheckFiles(c, files, run)
                lines == NonEmptyLines(run.out)
            IN /\ ~run.err => ws = <<>>
               /\ run.err =>
                    /\ Len(ws) = Len(lines)
                    /\ \A j \in DOMAIN lines : \A k \in DOMAIN fs :
                        /\ IsAbout(lines[j], fs[k]) =>
                            ws[j] = fs[k].origName \o From(lines[j], Len(fs[k].tempName))
                        /\ ~Contains(ws[j], fs[k].tempName)

\* the repository the scan under way, or the last one finished, is of
ScannedRepo == repos[scanned[Len(scanned)] + 1]

\* every line printed in a scan names the account, the repository of the scan
\* and an enabled checker whose CheckFiles has been called in it
C23_Lines ==
    \A j \in DOMAIN printed :
        /\ scanned # <<>>
        /\ printed[j].user = flags.user
        /\ printed[j].repo = ScannedRepo.Name
        /\ printed[j].name \in checkers
        /\ calls[printed[j].name].CheckFiles = 1

\* a call of CheckFiles that returns appends its warnings to the output, one
\* line each, in order, under the scanned repository and the checker's registry
\* name; nothing else prints
C23_Step ==
    /\ \A c \in Registry :
        calls'[c].CheckFiles = calls[c].CheckFiles + 1 =>
            \/ pc' = "panic" /\ printed' = printed
            \/ \E r \in CheckFiles(c, chk[c], files) :
                /\ ~r.panic
                /\ Len(printed') = Len(printed) + Len(r.warnings)
                /\ SubSeq(printed', 1, Len(printed)) = printed
                /\ \A j \in DOMAIN r.warnings :
                    /\ printed'[Len(printed) + j] =
                        [user |-> flags.user, repo |-> repos[i + 1].Name, name |-> c,
                         warning |-> r.warnings[j]]
                    /\ Line(printed'[Len(printed) + j]) =
                        "github.com/" \o flags.user \o "/" \o repos[i + 1].Name \o ": " \o c
                        \o ": " \o r.warnings[j]
    /\ printed' # printed =>
        \/ printed' = <<>> /\ scanned' # scanned
        \/ \E c \in Registry : calls'[c].CheckFiles = calls[c].CheckFiles + 1

(* C23: every warning an enabled checker's CheckFiles returns during the scan  *)
(* of repository R is printed exactly once, as a line naming the account, R    *)
(* and the registry name of that checker; no line is printed under another     *)
(* repository or another checker's name.                                       *)
C23_WarningsPrintedOnce == []C23_Lines /\ [][C23_Step]_vars

\* the second repository of an account is being scanned: one checker has
\* printed two warnings under its name, another has been called and returned
\* none
C23_Witness ==
    /\ pos.at = "check"
    /\ i = 1
    /\ Len(printed) = 2
    /\ printed[1].repo = "b" /\ printed[2].repo = "b"
    /\ printed[1].name = printed[2].name
    /\ printed[1].warning # printed[2].warning
    /\ \E c \in checkers \ {printed[1].name} : calls[c].CheckFiles = 1

\* the index of the repository the scan under way is of
ScanIndex == scanned[Len(scanned)]

\* the paths of the trees of the repositories scanned before this one
EarlierPaths ==
    {e.Path[1] : e \in
        {e \in UNION {{Lookup(remote.trees, repos[scanned[k] + 1].Name, <<>>)[n] :
                        n \in DOMAIN Lookup(remote.trees, repos[scanned[k] + 1].Name, <<>>)} :
                      k \in 1..(Len(scanned) - 1)} : e.Path # <<>>}}

\* the files of the scan under way that checker c has been given so far
PushedTo(c) ==
    IF calls[c].Reset = 0 THEN {}
    ELSE {files[k] : k \in 1..calls[c].PushFile}

\* in a scan a checker is Reset once and before any PushFile; from then on it
\* holds the scanned repository, pointers to files of this scan alone, and
\* flags only files of this scan have set; no printed warning mentions a path
\* that only an earlier repository has
C24_Fresh ==
    (pc = "lint repos" /\ scanned # <<>>) =>
        /\ \A c \in Registry :
            /\ calls[c].Reset <= 1
            /\ calls[c].PushFile > 0 => calls[c].Reset = 1
            /\ (c \in checkers /\ calls[c].Reset = 1) =>
                /\ chk[c].repo = ScannedRepo.Name
                /\ \A j \in DOMAIN chk[c].files :
                    /\ chk[c].files[j].scan = ScanIndex
                    /\ chk[c].files[j].at \in 1..calls[c].PushFile
                /\ chk[c].seenReadme =>
                    \E f \in PushedTo(c) : rootReadmeFileRE(f.origName)
                /\ chk[c].seenLicense =>
                    \E f \in PushedTo(c) : rootLicenseFileRE(f.origName)
        /\ \A j \in DOMAIN printed : \A path \in EarlierPaths :
            Contains(printed[j].warning, path) =>
                \E k \in DOMAIN files : files[k].origName = path

\* a Reset leaves the checker with no file and no flag
C24_Step ==
    \A c \in Registry :
        calls'[c].Reset = calls[c].Reset + 1 =>
            /\ calls[c].PushFile = 0
            /\ chk'[c].files = <<>>
            /\ ~chk'[c].seenReadme /\ ~chk'[c].seenLicense
            /\ chk'[c].repo = repos[i + 1].Name

(* C24: for every enabled checker and repository, Reset is called before the   *)
(* first PushFile of that repository, and after Reset the checker retains no   *)
(* file and no flag (seen README, seen LICENSE) of an earlier repository: the  *)
(* warnings of a repository never mention a file of an earlier one.            *)
C24_ResetIsolatesRepositories == []C24_Fresh /\ [][C24_Step]_vars

\* in the scan of a second repository a checker that retained files or set its
\* flags in the first one has been Reset and has printed warnings
C24_Witness ==
    /\ pos.at = "check"
    /\ Len(scanned) = 2
    /\ EarlierPaths # {}
    /\ printed # <<>>
    /\ \/ /\ "missing file" \in checkers
          /\ \E j \in DOMAIN printed : printed[j].warning = "missing root README file"
          /\ \E path \in EarlierPaths : rootReadmeFileRE(path)
       \/ /\ "var name typo" \in checkers
          /\ chk["var name typo"].files # <<>>
          /\ \E path \in EarlierPaths : isDocumentationFile(Base(path))

\* the indexes of the catalog that are to be scanned: those from the offset on
ToScan == {n \in 0..(Len(repos) - 1) : n >= flags.offset}

\* the scan last begun has run all its operations
ScanComplete ==
    /\ resolved = Len(files)
    /\ \A c \in checkers : calls[c].Reset = 1 /\ calls[c].CheckFiles = 1

(* C25: repositories are scanned one at a time in catalog order from index     *)
(* offset on: the scan of repository i is complete before anything is done     *)
(* for repository i+1, each catalog entry at an index >= offset is scanned     *)
(* exactly once, and the entries below offset are never scanned.               *)
C25_SequentialScans ==
    /\ \A k \in DOMAIN scanned :
        /\ scanned[k] = flags.offset + k - 1
        /\ scanned[k] \in ToScan
    /\ (scanned # <<>> /\ pos.at = "loop") => ScanComplete
    /\ (scanned # <<>> /\ pos.at \in {"push", "resolve", "check"}) => i = ScanIndex
    /\ (Exited /\ pos.at # "start") => {scanned[k] : k \in DOMAIN scanned} = ToScan

\* the tokens of a line with the offsets they begin at
TokensAt(l) ==
    {<<ab[1], Slice(l, ab[1], ab[2])>> : ab \in
        {ab \in (0..Len(l)) \X (0..Len(l)) :
            /\ ab[1] < ab[2]
            /\ \A j \in ab[1]..(ab[2] - 1) : ~IsSpace(Slice(l, j, j + 1))
            /\ ab[1] = 0 \/ IsSpace(Slice(l, ab[1] - 1, ab[1]))
            /\ ab[2] = Len(l) \/ IsSpace(Slice(l, ab[2], ab[2] + 1))}}

\* what a line scanner can find in the files fs: the file, the line, the offset
\* in the line, and the warning of the match
VarMatches(fs) ==
    UNION {UNION {{<<k, n, o[1], C20_Warning(fs[k], n, o[2])>> :
                    o \in Occurrences(LinesOf(fs[k])[n])} :
                  n \in DOMAIN LinesOf(fs[k])} : k \in DOMAIN fs}

AcronymMatches(fs) ==
    UNION {UNION {{<<k, n, t[1], C18_Warning(fs[k], n, t[2])>> :
                    t \in {u \in TokensAt(LinesOf(fs[k])[n]) : u[2] \in DOMAIN acronymMap}} :
                  n \in DOMAIN LinesOf(fs[k])} : k \in DOMAIN fs}

\* match a comes before match b: an earlier file, else an earlier line, else
\* further left in the line
Before(a, b) ==
    \/ a[1] < b[1]
    \/ a[1] = b[1] /\ a[2] < b[2]
    \/ a[1] = b[1] /\ a[2] = b[2] /\ a[3] < b[3]

\* the warnings ws are warnings of matches of M, each after the one before it
InFoundOrder(ws, M) ==
    \E f \in [DOMAIN ws -> M] :
        /\ \A j \in DOMAIN ws : f[j][4] = ws[j]
        /\ \A j \in 1..(Len(ws) - 1) : Before(f[j], f[j + 1])

\* the warnings ws, each ending with the name of one of the files fs, name the
\* files in the order of fs
InFileOrder(ws, fs, Names(_, _)) ==
    \E f \in [DOMAIN ws -> DOMAIN fs] :
        /\ \A j \in DOMAIN ws : Names(ws[j], fs[f[j]].origName)
        /\ \A j \in 1..(Len(ws) - 1) : f[j] <= f[j + 1]

(* C26: within one checker and one repository the warnings are returned in the *)
(* order the matches are found: by the order of the accepted files (the order  *)
(* they were pushed in, the order of the tree), then, for the line scanners,   *)
(* by ascending line number, then from left to right in a line.               *)
C26_WarningsInFoundOrder ==
    pos.at = "check" =>
        /\ \A c \in checkers : \A j \in 1..(Len(chk[c].files) - 1) :
            chk[c].files[j].at < chk[c].files[j + 1].at
        /\ "var name typo" \in checkers =>
            InFoundOrder(varTypoCheckFiles(chk["var name typo"], files),
                         VarMatches(Retained(chk["var name typo"], files)))
        /\ "acronym" \in checkers =>
            InFoundOrder(acronymCheckFiles(chk["acronym"], files),
                         AcronymMatches(Retained(chk["acronym"], files)))
        /\ "unwanted file" \in checkers =>
            \A ws \in unwantedFileCheckFiles(chk["unwanted file"], files) :
                InFileOrder(ws, Retained(chk["unwanted file"], files),
                            LAMBDA w, name : HasSuffix(w, " file: " \o name))
        /\ "sloppy copyright" \in checkers =>
            InFileOrder(sloppyCopyrightCheckFiles(chk["sloppy copyright"], files),
                        Retained(chk["sloppy copyright"], files),
                        LAMBDA w, name : HasPrefix(w, name \o ": "))

\* the variable typo checker found two matches in a line and one in the next,
\* the acronym checker matches in two files; or the unwanted file checker
\* reported three files, one of them twice
C26_Witness ==
    /\ pos.at = "check"
    /\ \/ /\ "var name typo" \in checkers /\ "acronym" \in checkers
          /\ Len(varTypoCheckFiles(chk["var name typo"], files)) = 3
          /\ Len(acronymCheckFiles(chk["acronym"], files)) = 2
          /\ calls["var name typo"].CheckFiles = 1
       \/ /\ "unwanted file" \in checkers
          /\ Len(printed) = 4
          /\ printed[1].warning = "remove Vim swap file: a.swp"
          /\ printed[4].warning = "remove Windows sys file: Thumbs.db"

\* the remote calls a step issues: a List request, a GetTree, a GetContents
CallsIssued ==
    (IF pageLog' # pageLog THEN 1 ELSE 0)
    + (IF scanned' # scanned THEN 1 ELSE 0)
    + (IF Len(fetched') = Len(fetched) + 1 THEN 1 ELSE 0)

\* the counter is at least the number of the calls on record: the List
\* requests, the scans begun, the contents fetched in the scan under way; up
\* to the end of the listing it is the number of List requests
C27_Counted ==
    /\ requests >= Len(pageLog) + Len(scanned) + Len(fetched)
    /\ scanned = <<>> => requests = Len(pageLog)

\* every step adds to the counter the number of calls it issues
C27_Step == requests' = requests + CallsIssued

(* C27: at every point of a run the request counter is the number of remote    *)
(* calls issued so far, one for every page request, tree fetch and content     *)
(* fetch, whether it succeeded or failed; it never decreases and is not reset  *)
(* between repositories.                                                       *)
C27_RequestCounter == (requests = 0) /\ []C27_Counted /\ [][C27_Step]_vars

\* a second scan is under way after calls of every kind: its tree fetch
\* failed or a content fetch of it did, and the counter still holds the content
\* fetches of the first scan
C27_Witness ==
    /\ Len(scanned) = 2
    /\ pos.at = "check"
    /\ treeErr \/ \E j \in DOMAIN fetched : fetched[j].kind = "error"
    /\ requests > Len(pageLog) + Len(scanned) + Len(fetched)

\* the response to the last List request ends the listing: an error, or no
\* next page
LastResponseEnds == lastList.err \/ lastList.resp[1].NextPage = 0

\* the first request is for the first page (opts.Page is 0: no page named);
\* while the listing goes on, the cursor is the next page the last response
\* named; the listing is left only after a response that ends it
C28_Cursor ==
    /\ pageLog # <<>> => pageLog[1] = 0
    /\ \A k \in 2..Len(pageLog) : pageLog[k] # 0
    /\ (pc = "get repos list" /\ pageLog # <<>>) =>
        /\ ~LastResponseEnds
        /\ page = lastList.resp[1].NextPage
    /\ (pc # "get repos list" /\ pageLog # <<>>) => LastResponseEnds

\* a request is made only while the listing goes on and is for the page of the
\* cursor; a response that ends the listing is the last one answered
C28_Step ==
    pageLog' # pageLog =>
        /\ pc = "get repos list"
        /\ pageLog' = Append(pageLog, page)
        /\ IF lastList'.err \/ lastList'.resp[1].NextPage = 0
           THEN pc' # "get repos list"
           ELSE pc' = "get repos list" /\ page' = lastList'.resp[1].NextPage

(* C28: getReposList follows the next-page cursor: it requests the first page, *)
(* then exactly the page each response names as next, and stops after the      *)
(* first response that names none (or an error): each page up to there is      *)
(* requested once and in order.                                                *)
C28_FollowsCursor == []C28_Cursor /\ [][C28_Step]_vars

\* the listing ended on its second request, which was for page 2, the page the
\* first response named
C28_Witness ==
    /\ pc = "disable checkers"
    /\ pageLog = <<0, 2>>
    /\ ~lastList.err

\* what one PushFile of checker c does with a file of the tree, taken alone
Alone(c, path) == PushFile(c, newChecker, repoFile(path), [scan |-> 0, at |-> 1], "skip")

\* the files of the scan that checker c accepts, by their places in the tree
AcceptedBy(c) == {k \in DOMAIN files : Alone(c, files[k].origName).c.files # <<>>}

\* the members of a set of numbers in ascending order
Ascending(S) == [j \in 1..Cardinality(S) |-> CHOOSE k \in S : Rank(S, k) = j]

\* the checker c after the first loop of lintRepo, whatever came before it
PushedChecker(c) ==
    [files |-> LET asc == Ascending(AcceptedBy(c)) IN
               [j \in DOMAIN asc |-> [scan |-> ScanIndex, at |-> asc[j]]],
     repo |-> ScannedRepo.Name,
     seenReadme |-> c = "missing file"
                    /\ \E k \in DOMAIN files : rootReadmeFileRE(files[k].origName),
     seenLicense |-> c = "missing file"
                     /\ \E k \in DOMAIN files :
                            /\ ~rootReadmeFileRE(files[k].origName)
                            /\ rootLicenseFileRE(files[k].origName)]

\* the flags of file k that the enabled checkers set between them
WantedContents(k) == \E c \in checkers : Alone(c, files[k].origName).f.require.contents

WantedLocalCopy(k) == \E c \in checkers : Alone(c, files[k].origName).f.require.localCopy

\* file k once the first loop is over and resolveRequirements has been called
\* for the first r files: its flags, its scratch path and its contents follow
\* from the tree, the enabled checkers and the answer to its fetch
ScannedFile(k, r) ==
    LET flagged == WantedContents(k) \/ WantedLocalCopy(k)
        data == IF FetchesOf(k) = {} THEN ""
                ELSE fetched[CHOOSE j \in FetchesOf(k) : TRUE].data
    IN [origName |-> files[k].origName,
        baseName |-> Base(files[k].origName),
        tempName |-> IF k <= r /\ flagged THEN scratchName(tempDir, files[k].origName) ELSE "",
        contents |-> IF k <= r /\ WantedContents(k) THEN data ELSE "",
        require |-> [localCopy |-> WantedLocalCopy(k) \/ (k <= r /\ WantedContents(k)),
                     contents |-> WantedContents(k)]]

\* the warnings printed under the name of checker c in this scan
PrintedBy(c) ==
    LET asc == Ascending({j \in DOMAIN printed : printed[j].name = c}) IN
    [n \in DOMAIN asc |-> printed[asc[n]].warning]

AcronymTokens(l) == {t \in TokensAt(l) : t[2] \in DOMAIN acronymMap}

(* C30: the acronym checker gives exactly one warning for every token of a     *)
(* line that is a listed acronym: a line with k such tokens gives k warnings,  *)
(* also when a single space separates two of them ("gnu sql" gives two), and   *)
(* the replacement in every warning is the upper-case form of the token.       *)
C30_OneWarningPerAcronym ==
    ("acronym" \in checkers /\ pos.at = "check") =>
        LET fs == Retained(chk["acronym"], files)
            ws == acronymCheckFiles(chk["acronym"], files)
        IN /\ \A k \in DOMAIN fs : \A n \in DOMAIN LinesOf(fs[k]) :
                /\ Cardinality(AboutLine(ws, fs[k], n)) =
                        Cardinality(AcronymTokens(LinesOf(fs[k])[n]))
                /\ \A t \in AcronymTokens(LinesOf(fs[k])[n]) :
                    \E j \in DOMAIN ws : ws[j] = C18_Warning(fs[k], n, t[2])
           /\ \A j \in DOMAIN ws :
                \E a \in DOMAIN acronymMap : HasSuffix(ws[j], " with " \o acronymMap[a])

\* the two checkers that read nothing but names
NameCheckers == {"missing file", "unwanted file"}

\* a file with nothing but its names: no flag, no copy, no contents
Bare(f) == repoFile(f.origName)

\* in a scan with no checker but the two, no file is flagged, fetched or
\* copied, and the only requests are those of the listing and of the trees;
\* and in any scan the unwanted file checker returns what it returns on the
\* bare names of its files
C31_NothingMaterialized ==
    /\ (pc = "lint repos" /\ checkers \subseteq NameCheckers) =>
        /\ \A k \in DOMAIN files : files[k] = Bare(files[k])
        /\ fetched = <<>>
        /\ scratch.files = <<>>
        /\ requests = Len(pageLog) + Len(scanned)
    /\ (pos.at = "check" /\ "unwanted file" \in checkers) =>
        unwantedFileCheckFiles(chk["unwanted file"], files) =
            unwantedFileCheckFiles(chk["unwanted file"],
                                   [k \in DOMAIN files |-> Bare(files[k])])

\* a PushFile of one of the two checkers changes no file
C31_Step ==
    \A c \in NameCheckers :
        calls'[c].PushFile = calls[c].PushFile + 1 => files' = files

(* C31: PushFile of the unwanted file checker and of the missing file checker  *)
(* leaves both requirement flags of every file as they are; with only these    *)
(* two enabled a scan fetches no contents and writes no scratch copy, and the  *)
(* unwanted file warnings depend only on the base name and the original path   *)
(* of each file.                                                               *)
C31_NameCheckersNeedNoContent == []C31_NothingMaterialized /\ [][C31_Step]_vars

\* a scan with the two checkers alone has resolved its three files and printed
\* warnings of both, and the process still has an empty scratch directory
C31_Witness ==
    /\ checkers = NameCheckers
    /\ pos.at = "loop"
    /\ resolved = 3
    /\ scratch.exists
    /\ \E j \in DOMAIN printed : printed[j].name = "missing file"
    /\ \E j \in DOMAIN printed :
        printed[j].name = "unwanted file"
        /\ printed[j].warning = "remove Emacs lock file file: src/.#b~"

\* the listed repositories that no filter before the one of inactivity skips
ReachInactivityTest ==
    {j \in DOMAIN listed :
        /\ ~(flags.skipForks /\ listed[j].Fork)
        /\ ~(flags.skipArchived /\ listed[j].Archived)
        /\ ~(listed[j].StargazersCount < flags.minStars)}

\* the listed repository j was skipped as inactive
SkippedInactive(j) ==
    \E k \in DOMAIN skipped : skipped[k] = [Name |-> listed[j].Name, reason |-> "inactive"]

\* the listed repository j is in the catalog
InCatalog(j) == \E k \in DOMAIN repos : repos[k] = listed[j]

(* C32 as stated: a repository counts as inactive exactly when the whole hours *)
(* since its last push are strictly more than 6 * 32 * 24 = 4608: with         *)
(* skipInactive on, one pushed 4608 hours ago is kept and one pushed 4609      *)
(* hours ago is skipped; with skipInactive off the last push never causes a    *)
(* skip.                                                                       *)
C32_WholeHoursThreshold ==
    \A j \in ReachInactivityTest :
        /\ SkippedInactive(j) <=>
            (flags.skipInactive /\ listed[j].pushedAgo \div 60 > 6 * 32 * 24)
        /\ InCatalog(j) <=> ~SkippedInactive(j)

(* C32 amended: a repository counts as inactive exactly when the time since    *)
(* its last push, the fraction of an hour included, is strictly more than      *)
(* 4608 hours: with skipInactive on, one pushed exactly 4608 hours ago is      *)
(* kept, one pushed 4608 hours and a minute ago or 4609 hours ago is skipped;  *)
(* with skipInactive off the last push never causes a skip.                    *)
C32_ElapsedTimeThreshold ==
    \A j \in ReachInactivityTest :
        /\ SkippedInactive(j) <=>
            (flags.skipInactive /\ listed[j].pushedAgo > 6 * 32 * 24 * 60)
        /\ InCatalog(j) <=> ~SkippedInactive(j)

\* with skipInactive on, the repository pushed 4608 hours ago is the one kept
\* of three that reached the test, the two pushed later than that were skipped
C32_Witness ==
    /\ pc = "disable checkers"
    /\ flags.skipInactive
    /\ Len(listed) = 3 /\ ReachInactivityTest = {1, 2, 3}
    /\ repos = <<RepoB>>
    /\ listed[1].pushedAgo = 4608 * 60
    /\ listed[3].pushedAgo = 4609 * 60
    /\ SkippedInactive(2) /\ SkippedInactive(3)

=============================================================================
